---- MODULE Spec2Model ----
(***************************************************************************)
(* A model of tbf: the playlist repair command (fix), the VOD discovery    *)
(* commands (exact, bruteforcer) and the timestamp parser                  *)
(* (parse_timestamp).  Texts are sequences of one-character strings, so    *)
(* that substring tests, slicing and parsing are computed on characters.   *)
(***************************************************************************)
EXTENDS Integers, Sequences, FiniteSets, TLC

(* ------------------------------ bounds --------------------------------- *)

\* longest source playlist, in segments
MaxSegs == 2
\* largest value of flags.threads
MaxThreads == 2
\* widest range of a bruteforce call, in seconds after BaseEpoch
MaxSpan == 1
\* entries (hostnames, lines) an override file holds at most
MaxOverride == 2

(* --------------------------- text helpers ------------------------------ *)

\* Option<T>: None is the empty sequence, Some(x) is <<x>>
NoneV == <<>>
Some(x) == <<x>>

\* str::contains
Contains(s, sub) ==
    \E i \in 1..(Len(s) - Len(sub) + 1) : SubSeq(s, i, i + Len(sub) - 1) = sub

\* str::ends_with
EndsWith(s, suf) ==
    /\ Len(s) >= Len(suf)
    /\ SubSeq(s, Len(s) - Len(suf) + 1, Len(s)) = suf

\* &s[..s.len() - n]
DropLast(s, n) == SubSeq(s, 1, Len(s) - n)

Digits == {"0","1","2","3","4","5","6","7","8","9"}

DigitVal(c) ==
    CASE c = "0" -> 0 [] c = "1" -> 1 [] c = "2" -> 2 [] c = "3" -> 3
      [] c = "4" -> 4 [] c = "5" -> 5 [] c = "6" -> 6 [] c = "7" -> 7
      [] c = "8" -> 8 [] c = "9" -> 9

\* the characters of the modelled texts, in code point order
AsciiOrder ==
    <<"\n"," ","+","-",".","/","0","1","2","3","4","5","6","7","8","9",":","@",
      "C","T","U","Z","_","a","b","c","d","e","f","g","h","i","j","k","l","m",
      "n","o","p","q","r","s","t","u","v","w","x","y","z">>

Ord(c) == CHOOSE i \in 1..Len(AsciiOrder) : AsciiOrder[i] = c

S_twitch == <<"t","w","i","t","c","h",".","t","v">>
S_cloudfront == <<"c","l","o","u","d","f","r","o","n","t",".","n","e","t">>
S_unmuted == <<"u","n","m","u","t","e","d">>
S_muted_ts == <<"-","m","u","t","e","d",".","t","s">>
S_https == <<"h","t","t","p","s",":","/","/">>
S_muted_ == <<"m","u","t","e","d","_">>
S_m3u8 == <<".","m","3","u","8">>

(* ------------------------------ state ---------------------------------- *)

VARIABLES
    flags,        \* Cli: threads, simple, verbose, progressbar
    fxUrl,        \* fix: url
    fxOutput,     \* fix: output (NoneV or a path)
    fxOld,        \* fix: old_method
    fxPc,         \* fix: position in the function
    fxPl,         \* fix: pl, the parsed source playlist (NoneV before / without it)
    fxPlaylist,   \* fix: playlist, the output playlist being built
    fxNext,       \* fix: index of the next segment stream::iter will yield
    fxInflight,   \* fix: segment probes sent and not completed
    fxFetches,    \* fix: fetches, resolved URLs in completion order
    fxAnswers,    \* fix: the segment and the status of each completed probe, in completion order
    fxHttp,       \* fix: URLs of the GET requests issued, in order
    fxFile,       \* the file fix creates: NoneV while the path is untouched
    fxLog,        \* fix: error! messages logged
    fxResult,     \* fix: "none" while running, else the outcome
    tsText,       \* parse_timestamp: timestamp
    tsPc,         \* parse_timestamp: the rule about to be tried
    tsTried,      \* parse_timestamp: the rules tried so far, each with its outcome
    tsResult,     \* parse_timestamp: NoneV while running, else Some(result)
    dvCmd,        \* discovery: "exact" or "bruteforce"
    dvUser,       \* discovery: username
    dvVod,        \* discovery: vod
    dvFrom,       \* discovery: initial_from_stamp (initial_stamp of exact)
    dvTo,         \* discovery: initial_to_stamp
    dvPc,         \* discovery: position in the function
    dvCands,      \* bruteforcer: all_formats_vec
    dvNext,       \* bruteforcer: index of the next candidate stream::iter will yield
    dvInflight,   \* bruteforcer: probes sent and not completed
    dvFetches,    \* bruteforcer: fetches, one Option<TwitchURL> per completed probe
    dvFinal,      \* the confirmed (hash, timestamp) handed to check_availability
    dvCheck,      \* check_availability: index of the next CDN to ask
    dvValid,      \* check_availability: valid_urls so far
    dvHttp,       \* discovery: the GET requests issued, in order
    dvLast,       \* discovery: the response the latest step received
    dvPrinted,    \* discovery: the lines the latest step printed
    dvPb,         \* bruteforcer: position of the progress bar
    dvResult,     \* discovery: the value returned
    dvPrev,       \* the previous command of the session and its result
    server,       \* the status each URL answers with, when the server is stable
    stable,       \* whether responses are a fixed function of the URL
    cdPc,         \* compile_cdn_list: position in the function
    cdResult,     \* compile_cdn_list: what the call ended in
    cdPrev,       \* compile_cdn_list: the result of the previous call, same argument
    clVod,        \* clip_bruteforce: vod
    clStart,      \* clip_bruteforce: start
    clEnd,        \* clip_bruteforce: end
    clPc,         \* clip_bruteforce: position in the function
    clTodo,       \* clip_bruteforce: offsets of the range no worker has taken yet
    clInflight,   \* clip_bruteforce: offsets whose GET is sent and not completed
    clHttp,       \* clip_bruteforce: the GET requests issued, in order
    clRes,        \* clip_bruteforce: the offsets whose closure returned Some
    clResult,     \* clip_bruteforce: the value returned
    tfAsked,      \* try_to_fix: whether the user was asked about a fixed playlist
    tfFix         \* try_to_fix: the Fix command it executed (NoneV: none)

fxVars == <<fxUrl, fxOutput, fxOld, fxPc, fxPl, fxPlaylist, fxNext, fxInflight,
            fxFetches, fxAnswers, fxHttp, fxFile, fxLog, fxResult>>

tsVars == <<tsText, tsPc, tsTried, tsResult>>

dvVars == <<dvCmd, dvUser, dvVod, dvFrom, dvTo, dvPc, dvCands, dvNext, dvInflight,
            dvFetches, dvFinal, dvCheck, dvValid, dvHttp, dvLast, dvPrinted, dvPb,
            dvResult, dvPrev, server, stable>>

cdVars == <<cdPc, cdResult, cdPrev>>

clVars == <<clVod, clStart, clEnd, clPc, clTodo, clInflight, clHttp, clRes, clResult>>

tfVars == <<tfAsked, tfFix>>

(* ------------------------- fix: pure parts ----------------------------- *)

\* FIX_REGEX.captures_iter(url): the maximal runs of characters other than '/'
RECURSIVE FixRegexFrom(_, _, _)
FixRegexFrom(s, i, cur) ==
    IF i > Len(s)
    THEN IF cur = <<>> THEN <<>> ELSE <<cur>>
    ELSE IF s[i] = "/"
         THEN (IF cur = <<>> THEN <<>> ELSE <<cur>>) \o FixRegexFrom(s, i + 1, <<>>)
         ELSE FixRegexFrom(s, i + 1, Append(cur, s[i]))

BaseUrlParts(url) == FixRegexFrom(url, 1, <<>>)

\* indexing base_url_parts[1], [2], [3] (0-based) panics on a shorter vector
BaseUrlPanics(url) == Len(BaseUrlParts(url)) < 4

\* format!("https://{}/{}/{}/", parts[1], parts[2], parts[3])
BaseUrl(url) ==
    LET p == BaseUrlParts(url)
    IN  S_https \o p[2] \o <<"/">> \o p[3] \o <<"/">> \o p[4] \o <<"/">>

\* the guard of the first statement of fix
HostCheck(url) == Contains(url, S_twitch) \/ Contains(url, S_cloudfront)

\* the output path: output, else muted_{base_url_parts[2]}.m3u8
OutputPath(url, output) ==
    IF output # NoneV THEN output[1]
    ELSE S_muted_ \o BaseUrlParts(url)[3] \o S_m3u8

\* PatternUri without the rewrite: every URI is emitted as it is
PatternUriKeep(base, uri) == base \o uri

\* a rewrite that leaves a URI without "unmuted" as it was parsed
PatternUriBare(base, uri) ==
    IF Contains(uri, S_unmuted) THEN DropLast(base \o uri, 11) \o S_muted_ts ELSE uri

\* pattern mode, one segment: the URI pushed to playlist.segments
PatternUri(base, uri) ==
    LET url == base \o uri
    IN  IF Contains(uri, S_unmuted)
        THEN DropLast(url, 11) \o S_muted_ts
        ELSE url

\* pattern mode under the progress bar, one segment
PatternUriPb(base, uri) ==
    LET url == base \o uri
    IN  IF Contains(uri, S_unmuted)
        THEN DropLast(url, 11) \o S_muted_ts
        ELSE url

\* the two pattern-mode loops: one entry per source segment, in order
PatternSegments(base, segs, progressbar) ==
    [i \in 1..Len(segs) |->
        [uri |-> IF progressbar THEN PatternUriPb(base, segs[i].uri)
                 ELSE PatternUri(base, segs[i].uri),
         duration |-> segs[i].duration]]

\* a rewrite that always takes 3 characters off
VerifiedUriTrim3(url, status) ==
    IF status = "403" THEN DropLast(url, 3) \o S_muted_ts ELSE url

\* verified mode, one segment probe that got a response with this status
VerifiedUri(url, status) ==
    IF status = "403"
    THEN DropLast(url, IF Contains(url, S_unmuted) THEN 11 ELSE 3) \o S_muted_ts
    ELSE url

\* alphanumeric_sort::compare_str on ASCII texts: digit runs compare by value,
\* then by the number of leading zeros; other characters by code point
RECURSIVE DigitRunLen(_, _)
DigitRunLen(s, i) ==
    IF i <= Len(s) /\ s[i] \in Digits THEN 1 + DigitRunLen(s, i + 1) ELSE 0

RECURSIVE NumVal(_, _, _)
NumVal(s, i, n) ==
    IF n = 0 THEN 0 ELSE NumVal(s, i, n - 1) * 10 + DigitVal(s[i + n - 1])

RECURSIVE LeadingZeros(_, _, _)
LeadingZeros(s, i, n) ==
    IF n > 0 /\ s[i] = "0" THEN 1 + LeadingZeros(s, i + 1, n - 1) ELSE 0

RECURSIVE CompareStrFrom(_, _, _, _)
CompareStrFrom(a, i, b, j) ==
    IF i > Len(a) THEN (IF j > Len(b) THEN 0 ELSE -1)
    ELSE IF j > Len(b) THEN 1
    ELSE IF a[i] \in Digits /\ b[j] \in Digits
         THEN LET la == DigitRunLen(a, i)
                  lb == DigitRunLen(b, j)
                  va == NumVal(a, i, la)
                  vb == NumVal(b, j, lb)
                  za == LeadingZeros(a, i, la)
                  zb == LeadingZeros(b, j, lb)
              IN  IF va # vb THEN (IF va < vb THEN -1 ELSE 1)
                  ELSE IF za # zb THEN (IF za < zb THEN -1 ELSE 1)
                  ELSE CompareStrFrom(a, i + la, b, j + lb)
         ELSE IF a[i] = b[j] THEN CompareStrFrom(a, i + 1, b, j + 1)
              ELSE IF Ord(a[i]) < Ord(b[j]) THEN -1 ELSE 1

CompareStr(a, b) == CompareStrFrom(a, 1, b, 1)

\* fetches left in the order of completion
KeepCompletionOrder(v) == v

\* alphanumeric_sort::sort_str_slice
RECURSIVE SortStrSlice(_)
SortStrSlice(v) ==
    IF Len(v) <= 1 THEN v
    ELSE LET m == CHOOSE k \in 1..Len(v) :
                      \A l \in 1..Len(v) : CompareStr(v[k], v[l]) <= 0
             rest == SubSeq(v, 1, m - 1) \o SubSeq(v, m + 1, Len(v))
         IN  <<v[m]>> \o SortStrSlice(rest)

\* a pairing loop that leaves the duration at the default of MediaSegment
RepairSegmentsDefaultDuration(sorted, segs) ==
    [i \in 1..Len(segs) |-> [uri |-> sorted[i], duration |-> 0]]

\* the loop after the sort: the i-th sorted URL with the i-th source duration
RepairSegments(sorted, segs) ==
    [i \in 1..Len(segs) |-> [uri |-> sorted[i], duration |-> segs[i].duration]]

(* ----------------------- parse_timestamp: pure parts ------------------- *)

S_UTC == <<"U","T","C">>

\* ^\d+$ : one digit at least
ReUnixNonEmpty(t) == t # <<>> /\ \A i \in 1..Len(t) : t[i] \in Digits

\* RE_UNIX = ^\d*$
ReUnixIsMatch(t) == \A i \in 1..Len(t) : t[i] \in Digits

\* RE_UTC = UTC
ReUtcIsMatch(t) == Contains(t, S_UTC)

ParseErr == [ok |-> FALSE, value |-> 0]
ParseOk(v) == [ok |-> TRUE, value |-> v]

\* i64::MAX = 9223372036854775807, as digits
I64MaxDigits ==
    <<"9","2","2","3","3","7","2","0","3","6","8","5","4","7","7","5","8","0","7">>

RECURSIVE DigitsLess(_, _, _)
\* a < b for two digit texts of the same length, from position i
DigitsLess(a, b, i) ==
    IF i > Len(a) THEN FALSE
    ELSE IF a[i] # b[i] THEN DigitVal(a[i]) < DigitVal(b[i])
    ELSE DigitsLess(a, b, i + 1)

RECURSIVE StripZeros(_)
StripZeros(t) == IF t # <<>> /\ t[1] = "0" THEN StripZeros(Tail(t)) ELSE t

\* timestamp.parse::<i64>() on a text of digits: empty and overflowing texts fail
ParseI64(t) ==
    LET d == StripZeros(t)
    IN  IF t = <<>> THEN ParseErr
        ELSE IF Len(d) > Len(I64MaxDigits) THEN ParseErr
        ELSE IF Len(d) = Len(I64MaxDigits) /\ DigitsLess(I64MaxDigits, d, 1) THEN ParseErr
        ELSE ParseOk(NumVal(t, 1, Len(t)))

\* the three format descriptions; an item is a literal or a component
Lit(x) == [kind |-> "lit", text |-> x]
Comp(c) == [kind |-> c, text |-> <<>>]

DateYMD == <<Comp("year"), Lit(<<"-">>), Comp("month"), Lit(<<"-">>), Comp("day")>>
TimeHMS == <<Comp("hour"), Lit(<<":">>), Comp("minute"), Lit(<<":">>), Comp("second")>>

format_with_utc == DateYMD \o <<Lit(<<" ">>)>> \o TimeHMS \o <<Lit(<<" ","U","T","C">>)>>
format_wo_utc == DateYMD \o <<Lit(<<" ">>)>> \o TimeHMS
format_wo_sec ==
    <<Comp("day"), Lit(<<"-">>), Comp("month"), Lit(<<"-">>), Comp("year"),
      Lit(<<" ">>), Comp("hour"), Lit(<<":">>), Comp("minute")>>

\* the fields a parse collects; a second that the format lacks is 0
NoFields == [year |-> 0, month |-> 0, day |-> 0, hour |-> 0, minute |-> 0, second |-> 0]

AllDigitsAt(t, pos, n) ==
    /\ pos + n - 1 <= Len(t)
    /\ \A i \in pos..(pos + n - 1) : t[i] \in Digits

CompWidth(c) == IF c = "year" THEN 4 ELSE 2

RECURSIVE ParseItems(_, _, _, _, _)
\* the items of fmt from the k-th on, against t from pos on: every literal and
\* every zero-padded component must match, and no character may be left over
ParseItems(t, pos, fmt, k, acc) ==
    IF k > Len(fmt) THEN [ok |-> pos = Len(t) + 1, fields |-> acc]
    ELSE LET item == fmt[k] IN
         IF item.kind = "lit"
         THEN IF /\ pos + Len(item.text) - 1 <= Len(t)
                 /\ SubSeq(t, pos, pos + Len(item.text) - 1) = item.text
              THEN ParseItems(t, pos + Len(item.text), fmt, k + 1, acc)
              ELSE [ok |-> FALSE, fields |-> acc]
         ELSE LET signed == item.kind = "year" /\ pos <= Len(t) /\ t[pos] \in {"+", "-"}
                  p == IF signed THEN pos + 1 ELSE pos
                  w == CompWidth(item.kind)
              IN  IF AllDigitsAt(t, p, w)
                  THEN LET v == NumVal(t, p, w)
                           sv == IF signed /\ t[pos] = "-" THEN 0 - v ELSE v
                       IN  ParseItems(t, p + w, fmt, k + 1,
                                      [acc EXCEPT ![item.kind] = sv])
                  ELSE [ok |-> FALSE, fields |-> acc]

IsLeap(y) == (y % 4 = 0 /\ y % 100 # 0) \/ y % 400 = 0

DaysInMonth(y, m) ==
    IF m = 2 THEN (IF IsLeap(y) THEN 29 ELSE 28)
    ELSE IF m \in {4, 6, 9, 11} THEN 30 ELSE 31

\* the range checks of Date::from_calendar_date and Time::from_hms
FieldsValid(f) ==
    /\ f.month \in 1..12
    /\ f.day >= 1 /\ f.day <= DaysInMonth(f.year, f.month)
    /\ f.hour \in 0..23
    /\ f.minute \in 0..59
    /\ f.second \in 0..59

\* days from 1970-01-01 to the civil date
DaysFromCivil(y, m, d) ==
    LET yy == IF m <= 2 THEN y - 1 ELSE y
        era == yy \div 400
        yoe == yy - era * 400
        mp == IF m > 2 THEN m - 3 ELSE m + 9
        doy == (153 * mp + 2) \div 5 + d - 1
        doe == yoe * 365 + yoe \div 4 - yoe \div 100 + doy
    IN  era * 146097 + doe - 719468

\* a conversion that loses the second of the minute
UnixTimestampNoSeconds(f) ==
    DaysFromCivil(f.year, f.month, f.day) * 86400 + f.hour * 3600 + f.minute * 60

\* .assume_utc().unix_timestamp()
UnixTimestamp(f) ==
    DaysFromCivil(f.year, f.month, f.day) * 86400
        + f.hour * 3600 + f.minute * 60 + f.second

\* PrimitiveDateTime::parse(timestamp, format) and the conversion of its Ok
ParseFormat(t, fmt) ==
    LET r == ParseItems(t, 1, fmt, 1, NoFields)
    IN  IF r.ok /\ FieldsValid(r.fields) THEN ParseOk(UnixTimestamp(r.fields))
        ELSE ParseErr

\* the end of an RFC 3339 text from pos on: an optional fraction, then Z or
\* a numeric offset hh:mm
RECURSIVE SkipDigits(_, _)
SkipDigits(t, pos) ==
    IF pos <= Len(t) /\ t[pos] \in Digits THEN SkipDigits(t, pos + 1) ELSE pos

Rfc3339Tail(t, pos) ==
    LET q == IF pos <= Len(t) /\ t[pos] = "." THEN SkipDigits(t, pos + 1) ELSE pos
        fracOk == q = pos \/ q > pos + 1
    IN  /\ fracOk
        /\ q <= Len(t)
        /\ \/ t[q] \in {"Z", "z"} /\ q = Len(t)
           \/ /\ t[q] \in {"+", "-"}
              /\ q + 5 = Len(t)
              /\ AllDigitsAt(t, q + 1, 2)
              /\ t[q + 3] = ":"
              /\ AllDigitsAt(t, q + 4, 2)
              /\ NumVal(t, q + 1, 2) <= 23
              /\ NumVal(t, q + 4, 2) <= 59

\* PrimitiveDateTime::parse(timestamp, &Rfc3339): the date and the time of
\* day are kept, the offset is parsed and dropped
ParseRfc3339(t) ==
    LET head == SubSeq(t, 1, 19)
        r == ParseItems(head, 1,
                        DateYMD \o <<Lit(<<IF Len(t) >= 11 /\ t[11] = "t" THEN "t" ELSE "T">>)>>
                                \o TimeHMS,
                        1, NoFields)
    IN  IF /\ Len(t) >= 20
           /\ t[1] \in Digits
           /\ r.ok
           /\ FieldsValid(r.fields)
           /\ Rfc3339Tail(t, 20)
        THEN ParseOk(UnixTimestamp(r.fields))
        ELSE ParseErr

\* parse_timestamp as a function: the rules tried, in order, and the result
ParseTimestamp(t) ==
    IF ReUnixIsMatch(t) THEN ParseI64(t)
    ELSE IF ReUtcIsMatch(t) THEN ParseFormat(t, format_with_utc)
    ELSE IF ParseRfc3339(t).ok THEN ParseRfc3339(t)
    ELSE IF ParseFormat(t, format_wo_utc).ok THEN ParseFormat(t, format_wo_utc)
    ELSE ParseFormat(t, format_wo_sec)

(* --------------------------- timestamp texts --------------------------- *)

DigitChar(d) == <<"0","1","2","3","4","5","6","7","8","9">>[d + 1]

RECURSIVE FmtDec(_)
\* the decimal text of a natural number
FmtDec(n) == IF n < 10 THEN <<DigitChar(n)>> ELSE Append(FmtDec(n \div 10), DigitChar(n % 10))

Pad2(n) == <<DigitChar(n \div 10), DigitChar(n % 10)>>
Pad4(n) == Pad2(n \div 100) \o Pad2(n % 100)

\* the civil date of a day count from 1970-01-01
CivilFromDays(z0) ==
    LET z == z0 + 719468
        era == z \div 146097
        doe == z - era * 146097
        yoe == (doe - doe \div 1460 + doe \div 36524 - doe \div 146096) \div 365
        doy == doe - (365 * yoe + yoe \div 4 - yoe \div 100)
        mp == (5 * doy + 2) \div 153
        d == doy - (153 * mp + 2) \div 5 + 1
        m == IF mp < 10 THEN mp + 3 ELSE mp - 9
        y == yoe + era * 400 + (IF m <= 2 THEN 1 ELSE 0)
    IN  [year |-> y, month |-> m, day |-> d]

FieldsOf(e) ==
    LET c == CivilFromDays(e \div 86400)
        s == e % 86400
    IN  [year |-> c.year, month |-> c.month, day |-> c.day,
         hour |-> s \div 3600, minute |-> (s % 3600) \div 60, second |-> s % 60]

FmtYMD(f) == Pad4(f.year) \o <<"-">> \o Pad2(f.month) \o <<"-">> \o Pad2(f.day)
FmtHMS(f) == Pad2(f.hour) \o <<":">> \o Pad2(f.minute) \o <<":">> \o Pad2(f.second)

\* the decimal text of an epoch, with a minus sign before 1970
FmtUnix(e) == IF e < 0 THEN <<"-">> \o FmtDec(-e) ELSE FmtDec(e)
FmtRfc3339(e) == FmtYMD(FieldsOf(e)) \o <<"T">> \o FmtHMS(FieldsOf(e)) \o <<"+","0","0",":","0","0">>
FmtWithUtc(e) == FmtYMD(FieldsOf(e)) \o <<" ">> \o FmtHMS(FieldsOf(e)) \o <<" ","U","T","C">>
FmtWoUtc(e) == FmtYMD(FieldsOf(e)) \o <<" ">> \o FmtHMS(FieldsOf(e))
FmtWoSec(e) ==
    LET f == FieldsOf(e)
    IN  Pad2(f.day) \o <<"-">> \o Pad2(f.month) \o <<"-">> \o Pad4(f.year)
            \o <<" ">> \o Pad2(f.hour) \o <<":">> \o Pad2(f.minute)

(* ------------------------- compile_cdn_list ---------------------------- *)

\* the built-in hostname list, in the order of its declaration:
\* vod-secure.twitch.tv, d1m7jfoe9zdc1j.cloudfront.net
CDN_URLS ==
    << <<"v","o","d","-","s","e","c","u","r","e",".","t","w","i","t","c","h",".","t","v">>,
       <<"d","1","m","7","j","f","o","e","9","z","d","c","1","j",".","c","l","o","u","d","f","r","o","n","t",".","n","e","t">> >>

RECURSIVE StrLess(_, _, _)
\* a < b as byte strings, from position i
StrLess(a, b, i) ==
    IF i > Len(b) THEN FALSE
    ELSE IF i > Len(a) THEN TRUE
    ELSE IF a[i] # b[i] THEN Ord(a[i]) < Ord(b[i])
    ELSE StrLess(a, b, i + 1)

Range(v) == { v[i] : i \in 1..Len(v) }

RECURSIVE SortedOf(_)
SortedOf(S) ==
    IF S = {} THEN <<>>
    ELSE LET m == CHOOSE x \in S : \A y \in S \ {x} : StrLess(x, y, 1)
         IN  <<m>> \o SortedOf(S \ {m})

\* return_vec.sort_unstable(); return_vec.dedup();
SortDedup(v) == SortedOf(Range(v))

RECURSIVE LinesFrom(_, _, _)
\* str::lines
LinesFrom(t, i, cur) ==
    IF i > Len(t) THEN (IF cur = <<>> THEN <<>> ELSE <<cur>>)
    ELSE IF t[i] = "\n" THEN <<cur>> \o LinesFrom(t, i + 1, <<>>)
    ELSE LinesFrom(t, i + 1, Append(cur, t[i]))

Lines(t) == LinesFrom(t, 1, <<>>)

\* cdn_string.retain(|c| !c.is_whitespace())
RetainNonWhitespace(t) == SelectSeq(t, LAMBDA c : c \notin {" ", "\n"})

\* a merge that returns the override alone when it parses
CompileCdnListOverrideOnly(cdn_file_path) ==
    IF cdn_file_path # NoneV /\ cdn_file_path[1].opens /\ cdn_file_path[1].parsed # NoneV
    THEN SortDedup(cdn_file_path[1].parsed[1])
    ELSE CDN_URLS

\* compile_cdn_list on a file whose content can be read.  A file is [opens, ext, text, parsed]: whether File::open
\* succeeds, Path::extension, the content, and what the serde parser of the
\* extension's format makes of it (NoneV: a parse error).
CompileCdnList(cdn_file_path) ==
    IF cdn_file_path = NoneV THEN CDN_URLS
    ELSE LET f == cdn_file_path[1] IN
         IF ~f.opens THEN CDN_URLS
         ELSE IF f.ext = NoneV
              THEN SortDedup(CDN_URLS \o Lines(RetainNonWhitespace(f.text)))
         ELSE IF f.ext[1] \in {"json", "toml", "yaml", "yml"}
              THEN IF f.parsed = NoneV THEN CDN_URLS
                   ELSE SortDedup(CDN_URLS \o f.parsed[1])
         ELSE IF f.ext[1] = "txt" THEN SortDedup(CDN_URLS \o Lines(f.text))
         ELSE CDN_URLS

(* ----------------------- discovery: pure parts ------------------------- *)

\* format!("{hex_vec:x}") of the SHA-1 digest of "{username}_{vod}_{number}":
\* 40 hex characters, each a function of its position and of the text hashed
Sha1Hex(username, vod, number) ==
    [i \in 1..40 |-> <<"hex", i, username, vod, number>>]

\* the hex text taken whole, without the slice
Sha1HexUnsliced(username, vod, number) == Sha1Hex(username, vod, number)

\* &hex[0..20]
Sha1Hex20(username, vod, number) == SubSeq(Sha1Hex(username, vod, number), 1, 20)

\* https://{cdn}/{hash}_{username}_{vod}_{number}/chunked/index-dvr.m3u8
VodUrl(cdn, hash, username, vod, number) ==
    [cdn |-> cdn, hash |-> hash, username |-> username, vod |-> vod, number |-> number]

\* number1..number2 + 1 without its last epoch
EpochRangeExclusive(number1, number2) == { n \in number1..number2 : n < number2 }

\* for number in number1..number2 + 1
EpochRange(number1, number2) == number1..number2

RECURSIVE AllFormatsFrom(_, _, _, _, _)
\* the two loops of bruteforcer: epochs ascending, the CDN list inside
AllFormatsFrom(username, vod, number, number2, cdnfile) ==
    IF number \notin EpochRange(number, number2) THEN <<>>
    ELSE LET hex == Sha1Hex20(username, vod, number)
             cdns == CompileCdnList(cdnfile)
         IN  [i \in 1..Len(cdns) |->
                 [full_url |-> VodUrl(cdns[i], hex, username, vod, number),
                  hash |-> hex,
                  timestamp |-> number]]
             \o AllFormatsFrom(username, vod, number + 1, number2, cdnfile)

\* a candidate set that takes the two epochs in ascending order
AllFormatsSwapped(username, vod, number1, number2, cdnfile) ==
    IF number1 > number2
    THEN AllFormatsFrom(username, vod, number2, number1, cdnfile)
    ELSE AllFormatsFrom(username, vod, number1, number2, cdnfile)

\* all_formats_vec for the epochs number1..number2 + 1
AllFormats(username, vod, number1, number2, cdnfile) ==
    AllFormatsFrom(username, vod, number1, number2, cdnfile)

TransportFailure == "transport error"
Responses == {"200", "403", "404", "500", TransportFailure}

\* every response is a hit
ProbeHitAlways(response) == TRUE

\* the match on the response of one probe: Some(url) or None
ProbeHit(response) == response = "200"

\* the lines one probe prints through pb.println
ProbeLines(url, response, verbose) ==
    IF response = "200"
    THEN IF verbose THEN <<[msg |-> "Got it!", url |-> url]>> ELSE <<>>
    ELSE IF response \in {"403", "404"}
    THEN IF verbose THEN <<[msg |-> "Still going", url |-> url]>> ELSE <<>>
    ELSE IF response = TransportFailure
    THEN <<[msg |-> "Reqwest error", url |-> url]>>
    ELSE <<[msg |-> "You might be getting throttled (or your connection is dead)!",
            url |-> url]>>

\* check_availability: the URL asked of one hostname for the confirmed hash
CheckAvailabilityUrl(cdn, hash, username, vod, timestamp) ==
    VodUrl(cdn, hash, username, vod, timestamp)

\* check_availability: a hostname answering 200 adds ReturnURL{url, muted: false}
CheckAvailabilityPush(valid_urls, url, response) ==
    IF response = "200" THEN Append(valid_urls, [url |-> url, muted |-> FALSE])
    ELSE valid_urls

RECURSIVE Flatten(_)
\* fetches.into_iter().flatten()
Flatten(fetches) ==
    IF fetches = <<>> THEN <<>>
    ELSE Head(fetches) \o Flatten(Tail(fetches))

\* fetches.into_iter().flatten().next()
FinalUrl(fetches) ==
    LET hits == Flatten(fetches)
    IN  IF hits = <<>> THEN NoneV ELSE Some(Head(hits))

\* Ok(Some(valid_urls)) without the is_empty test
ResultAlwaysSome(valid_urls) == [tag |-> "Ok", value |-> Some(valid_urls)]

\* the value both commands return for a list of valid URLs
ResultOf(valid_urls) ==
    IF valid_urls # <<>> THEN [tag |-> "Ok", value |-> Some(valid_urls)]
    ELSE [tag |-> "Ok", value |-> NoneV]

\* a parse error reported as not found
ResultErrAsNotFound == [tag |-> "Ok", value |-> NoneV]

\* return Err(e)? on a timestamp that does not parse
ResultErr == [tag |-> "Err", value |-> NoneV]
Running == [tag |-> "running", value |-> NoneV]

\* the lines printed when the command reports its result
ResultLines(valid_urls, found, simple) ==
    IF valid_urls # <<>>
    THEN (IF simple THEN <<>>
          ELSE <<[msg |-> "Got the URL and it was available", url |-> NoneV]>>)
         \o [i \in 1..Len(valid_urls) |-> [msg |-> "url", url |-> Some(valid_urls[i].url)]]
    ELSE IF simple THEN <<>>
    ELSE IF found THEN <<[msg |-> "Got the URL and it was NOT available", url |-> NoneV],
                         [msg |-> "Here's the URL for debug purposes", url |-> NoneV]>>
    ELSE <<[msg |-> "Couldn't find anything :(", url |-> NoneV]>>

(* --------------------------- fix: inputs ------------------------------- *)

FixUrls ==
    { <<"h","t","t","p","s",":","/","/","t","w","i","t","c","h",".","t","v","/","a","/","b","/","i">>,
      <<"h","t","t","p","s",":","/","/","c",".","c","l","o","u","d","f","r","o","n","t",".","n","e","t","/","a","/","b","/","i">>,
      <<"h","t","t","p","s",":","/","/","e",".","c","o","m","/","a","/","b","/","i">>,
      <<"h","t","t","p","s",":","/","/","e",".","c","o","m","/","t","w","i","t","c","h",".","t","v","/","b","/","i">>,
      <<"h","t","t","p","s",":","/","/","t","w","i","t","c","h",".","t","v","@","e",".","c","o","m","/","a","/","b","/","i">>,
      <<"h","t","t","p","s",":","/","/","t","w","i","t","c","h",".","t","v","/","x">> }

\* the URLs verified mode is run on: accepted, rejected, too short
FixUrlsVerified ==
    { <<"h","t","t","p","s",":","/","/","t","w","i","t","c","h",".","t","v","/","a","/","b","/","i">>,
      <<"h","t","t","p","s",":","/","/","e",".","c","o","m","/","a","/","b","/","i">>,
      <<"h","t","t","p","s",":","/","/","t","w","i","t","c","h",".","t","v","/","x">> }

FixOutputs == { NoneV, Some(<<"o",".","m","3","u","8">>) }

\* segments of a source playlist: 1.ts, 2-unmuted.ts, 3-muted.ts, 10.ts
SegPool ==
    { [uri |-> <<"1",".","t","s">>, duration |-> 10],
      [uri |-> <<"2","-","u","n","m","u","t","e","d",".","t","s">>, duration |-> 9],
      [uri |-> <<"3","-","m","u","t","e","d",".","t","s">>, duration |-> 10],
      [uri |-> <<"1","0",".","t","s">>, duration |-> 4] }

SegLists == UNION { [1..n -> SegPool] : n \in 0..MaxSegs }

\* the container-level fields of a media playlist
Headers ==
    { [version |-> Some(3), target_duration |-> 10, media_sequence |-> 0,
       discontinuity_sequence |-> 0, end_list |-> TRUE, playlist_type |-> Some("Event")],
      [version |-> Some(4), target_duration |-> 6, media_sequence |-> 7,
       discontinuity_sequence |-> 1, end_list |-> FALSE, playlist_type |-> NoneV] }

\* MediaPlaylist { ..Default::default() }
DefaultHeader ==
    [version |-> NoneV, target_duration |-> 0, media_sequence |-> 0,
     discontinuity_sequence |-> 0, end_list |-> FALSE, playlist_type |-> NoneV]

DefaultPlaylist == [header |-> DefaultHeader, segments |-> <<>>]

\* a body parse_media_playlist_res rejects
Garbage == [parses |-> FALSE, header |-> DefaultHeader, segments |-> <<>>]

\* what the playlist URL can serve
Bodies == {Garbage} \cup [parses : {TRUE}, header : Headers, segments : SegLists]

\* what a segment GET can come back with: a status, or a transport failure
TransportError == "transport error"
SegResponses == {"200", "403", "404", TransportError}

(* --------------------------- fix: actions ------------------------------ *)

\* the state of a command that is not running
FixIdle ==
    /\ fxUrl = <<>>
    /\ fxOutput = NoneV
    /\ fxOld = FALSE
    /\ fxPc = "idle"
    /\ fxPl = NoneV
    /\ fxPlaylist = DefaultPlaylist
    /\ fxNext = 1
    /\ fxInflight = {}
    /\ fxFetches = <<>>
    /\ fxAnswers = <<>>
    /\ fxHttp = <<>>
    /\ fxFile = NoneV
    /\ fxLog = {}
    /\ fxResult = "none"

TsIdle ==
    /\ tsText = <<>>
    /\ tsPc = "idle"
    /\ tsTried = <<>>
    /\ tsResult = NoneV

DvIdle ==
    /\ dvCmd = "none"
    /\ dvUser = ""
    /\ dvVod = 0
    /\ dvFrom = <<>>
    /\ dvTo = <<>>
    /\ dvPc = "idle"
    /\ dvCands = <<>>
    /\ dvNext = 1
    /\ dvInflight = {}
    /\ dvFetches = <<>>
    /\ dvFinal = NoneV
    /\ dvCheck = 1
    /\ dvValid = <<>>
    /\ dvHttp = <<>>
    /\ dvLast = NoneV
    /\ dvPrinted = <<>>
    /\ dvPb = 0
    /\ dvResult = Running
    /\ dvPrev = NoneV
    /\ server = <<>>
    /\ stable = FALSE

CdIdle ==
    /\ cdPc = "idle"
    /\ cdResult = [tag |-> "running", value |-> <<>>]
    /\ cdPrev = NoneV

TfIdle ==
    /\ tfAsked = FALSE
    /\ tfFix = NoneV

ClIdle ==
    /\ clVod = 0
    /\ clStart = 0
    /\ clEnd = 0
    /\ clPc = "idle"
    /\ clTodo = {}
    /\ clInflight = {}
    /\ clHttp = <<>>
    /\ clRes = {}
    /\ clResult = Running

FixInit ==
    /\ TfIdle
    /\ TsIdle
    /\ DvIdle
    /\ CdIdle
    /\ ClIdle
    /\ fxUrl \in FixUrls
    /\ fxOutput \in FixOutputs
    /\ fxOld \in BOOLEAN
    /\ flags \in [threads : 0..MaxThreads, simple : {FALSE}, verbose : {FALSE},
                  cdnfile : {NoneV}, progressbar : BOOLEAN]
    \* threads is read in verified mode only, the progress bar branch in pattern mode only
    /\ fxOld => fxUrl \in FixUrlsVerified
    /\ fxOld => ~flags.progressbar
    /\ ~fxOld => flags.threads = 1
    /\ fxPc = "start"
    /\ fxPl = NoneV
    /\ fxPlaylist = DefaultPlaylist
    /\ fxNext = 1
    /\ fxInflight = {}
    /\ fxFetches = <<>>
    /\ fxAnswers = <<>>
    /\ fxHttp = <<>>
    /\ fxFile = NoneV
    /\ fxLog = {}
    /\ fxResult = "none"

FixReturn(result) ==
    /\ fxResult' = result
    /\ fxPc' = "done"

\* the host check, base_url, and the GET of the playlist being sent
FixStart ==
    /\ fxPc = "start"
    /\ IF ~HostCheck(fxUrl)
       THEN /\ fxLog' = fxLog \cup {"Only twitch.tv and cloudfront.net URLs are supported"}
            /\ FixReturn("Err(PlaylistFix::URL)")
            /\ UNCHANGED fxHttp
       ELSE IF BaseUrlPanics(fxUrl)
       THEN /\ FixReturn("panic")
            /\ UNCHANGED <<fxHttp, fxLog>>
       ELSE /\ fxHttp' = Append(fxHttp, fxUrl)
            /\ fxPc' = "send"
            /\ UNCHANGED <<fxLog, fxResult>>
    /\ UNCHANGED <<flags, fxUrl, fxOutput, fxOld, fxPl, fxPlaylist, fxNext,
                   fxInflight, fxFetches, fxAnswers, fxFile>>
    /\ UNCHANGED <<tsVars, dvVars, cdVars, clVars, tfVars>>

\* HTTP_CLIENT.get(url).send().await
FixSend ==
    /\ fxPc = "send"
    /\ \E ok \in BOOLEAN :
          IF ok THEN fxPc' = "text" /\ UNCHANGED fxResult
          ELSE FixReturn("Err(reqwest)")
    /\ UNCHANGED <<flags, fxUrl, fxOutput, fxOld, fxPl, fxPlaylist, fxNext,
                   fxInflight, fxFetches, fxAnswers, fxHttp, fxFile, fxLog>>
    /\ UNCHANGED <<tsVars, dvVars, cdVars, clVars, tfVars>>

\* res.text().await, then the match on parse_media_playlist_res up to the first
\* segment probe (verified mode) or through the whole segment loop (pattern mode)
FixParse(body) ==
    IF ~body.parses
    THEN /\ fxLog' = fxLog \cup {"Error in unmute()"}
         /\ fxPc' = "write"
         /\ UNCHANGED <<fxPl, fxPlaylist>>
    ELSE /\ fxPl' = Some(body)
         /\ UNCHANGED fxLog
         /\ IF fxOld /\ (Len(body.segments) > 0 \/ flags.threads = 0)
            THEN /\ fxPlaylist' = [header |-> body.header, segments |-> <<>>]
                 /\ fxPc' = "probe"
            ELSE /\ fxPlaylist' =
                       [header |-> body.header,
                        segments |-> IF fxOld THEN <<>>
                                     ELSE PatternSegments(BaseUrl(fxUrl), body.segments,
                                                          flags.progressbar)]
                 /\ fxPc' = "write"

FixText ==
    /\ fxPc = "text"
    /\ \/ /\ FixReturn("Err(reqwest)")
          /\ UNCHANGED <<fxPl, fxPlaylist, fxLog>>
       \/ /\ \E body \in Bodies : FixParse(body)
          /\ UNCHANGED fxResult
    /\ UNCHANGED <<flags, fxUrl, fxOutput, fxOld, fxNext, fxInflight, fxFetches, fxAnswers,
                   fxHttp, fxFile>>
    /\ UNCHANGED <<tsVars, dvVars, cdVars, clVars, tfVars>>

\* buffer_unordered(flags.threads) polls the next segment future: its GET is sent
FixProbeSend ==
    /\ fxPc = "probe"
    /\ fxNext <= Len(fxPl[1].segments)
    /\ Cardinality(fxInflight) < flags.threads
    /\ fxHttp' = Append(fxHttp, BaseUrl(fxUrl) \o fxPl[1].segments[fxNext].uri)
    /\ fxInflight' = fxInflight \cup {fxNext}
    /\ fxNext' = fxNext + 1
    /\ UNCHANGED <<flags, fxUrl, fxOutput, fxOld, fxPc, fxPl, fxPlaylist, fxFetches, fxAnswers,
                   fxFile, fxLog, fxResult>>
    /\ UNCHANGED <<tsVars, dvVars, cdVars, clVars, tfVars>>

\* one segment probe completes; after the last one the sort and the pairing loop run
FixProbeDone ==
    /\ fxPc = "probe"
    /\ \E i \in fxInflight, r \in SegResponses :
          IF r = TransportError
          THEN \* .expect("Error")
               /\ FixReturn("panic")
               /\ UNCHANGED <<fxInflight, fxFetches, fxAnswers, fxPlaylist>>
          ELSE LET fetches == Append(fxFetches,
                                     VerifiedUri(BaseUrl(fxUrl) \o fxPl[1].segments[i].uri, r))
                   last == fxNext > Len(fxPl[1].segments) /\ fxInflight = {i}
               IN  /\ fxFetches' = fetches
                   /\ fxAnswers' = Append(fxAnswers, [index |-> i, status |-> r])
                   /\ fxInflight' = fxInflight \ {i}
                   /\ UNCHANGED fxResult
                   /\ IF last
                      THEN /\ fxPlaylist' =
                                 [fxPlaylist EXCEPT !.segments =
                                     RepairSegments(SortStrSlice(fetches), fxPl[1].segments)]
                           /\ fxPc' = "write"
                      ELSE UNCHANGED <<fxPlaylist, fxPc>>
    /\ UNCHANGED <<flags, fxUrl, fxOutput, fxOld, fxPl, fxNext, fxHttp, fxFile, fxLog>>
    /\ UNCHANGED <<tsVars, dvVars, cdVars, clVars, tfVars>>

\* File::create(path) and playlist.write_to(&mut file)
FixWrite ==
    /\ fxPc = "write"
    /\ \/ \* File::create fails
          /\ UNCHANGED fxFile
          /\ FixReturn("Err(io)")
       \/ \* write_to fails after writing n of the segment entries
          /\ \E n \in 0..Len(fxPlaylist.segments) :
                fxFile' = Some([path |-> OutputPath(fxUrl, fxOutput),
                           header |-> fxPlaylist.header,
                           segments |-> SubSeq(fxPlaylist.segments, 1, n),
                           complete |-> FALSE])
          /\ FixReturn("Err(io)")
       \/ /\ fxFile' = Some([path |-> OutputPath(fxUrl, fxOutput),
                         header |-> fxPlaylist.header,
                         segments |-> fxPlaylist.segments,
                         complete |-> TRUE])
          /\ FixReturn("Ok")
    /\ UNCHANGED <<flags, fxUrl, fxOutput, fxOld, fxPl, fxPlaylist, fxNext,
                   fxInflight, fxFetches, fxAnswers, fxHttp, fxLog>>
    /\ UNCHANGED <<tsVars, dvVars, cdVars, clVars, tfVars>>

vars == <<flags, fxVars, tsVars, dvVars, cdVars, clVars, tfVars>>

FixNext == FixStart \/ FixSend \/ FixText \/ FixProbeSend \/ FixProbeDone \/ FixWrite

SpecFix == FixInit /\ [][FixNext]_vars

(* ------------------------ fix: properties ------------------------------ *)

\* the run is in pattern mode and the segment loop has run
PatternDone ==
    /\ ~fxOld
    /\ fxPl # NoneV
    /\ fxPc \in {"write", "done"}

\* C1 as stated: in pattern mode the output has one entry per source segment,
\* and the entries ending in -muted.ts are exactly those that came from a
\* segment whose URI contains "unmuted".
C1_OnlyUnmutedEndMuted ==
    PatternDone =>
        /\ Len(fxPlaylist.segments) = Len(fxPl[1].segments)
        /\ \A i \in 1..Len(fxPl[1].segments) :
              EndsWith(fxPlaylist.segments[i].uri, S_muted_ts)
                  <=> Contains(fxPl[1].segments[i].uri, S_unmuted)

\* C1 amended: in pattern mode the output has one entry per source segment,
\* and the entries ending in -muted.ts are exactly those that came from a
\* segment whose URI contains "unmuted" or itself already ends in -muted.ts.
C1_PatternRewrite ==
    PatternDone =>
        /\ Len(fxPlaylist.segments) = Len(fxPl[1].segments)
        /\ \A i \in 1..Len(fxPl[1].segments) :
              EndsWith(fxPlaylist.segments[i].uri, S_muted_ts)
                  <=> \/ Contains(fxPl[1].segments[i].uri, S_unmuted)
                      \/ EndsWith(fxPl[1].segments[i].uri, S_muted_ts)

\* a finished pattern-mode run over a playlist that holds a segment with
\* "unmuted", an already muted segment and a plain one
C1_Witness ==
    /\ PatternDone
    /\ fxResult = "Ok"
    /\ \E i, j \in 1..Len(fxPl[1].segments) :
          /\ Contains(fxPl[1].segments[i].uri, S_unmuted)
          /\ EndsWith(fxPlaylist.segments[i].uri, S_muted_ts)
          /\ ~Contains(fxPl[1].segments[j].uri, S_unmuted)
          /\ ~EndsWith(fxPlaylist.segments[j].uri, S_muted_ts)

\* the host of a URL: the authority after "scheme://", without user-info
RECURSIVE AfterLastAt(_)
AfterLastAt(s) ==
    IF \E i \in 1..Len(s) : s[i] = "@"
    THEN AfterLastAt(SubSeq(s, (CHOOSE i \in 1..Len(s) : s[i] = "@") + 1, Len(s)))
    ELSE s

UrlHost(url) ==
    LET p == BaseUrlParts(url)
    IN  IF Len(p) < 2 THEN <<>> ELSE AfterLastAt(p[2])

HostSupported(url) ==
    LET h == UrlHost(url)
    IN  \/ h = S_twitch
        \/ h = S_cloudfront
        \/ EndsWith(h, <<".">> \o S_twitch)
        \/ EndsWith(h, <<".">> \o S_cloudfront)

\* C2 as stated: for a URL whose host is neither twitch.tv nor cloudfront.net,
\* fix issues no HTTP request and ends with the unsupported-host error.
C2_ForeignHostRejected ==
    ~HostSupported(fxUrl) =>
        /\ fxHttp = <<>>
        /\ fxPc = "done" => fxResult = "Err(PlaylistFix::URL)"

\* C3 as stated: when the downloaded body does not parse as a media playlist,
\* the error is logged and no file is created at the output path.
C3_ParseFailureWritesNothing ==
    (fxPl = NoneV /\ (fxPc = "write" \/ fxResult \in {"Ok", "Err(io)"}))
    => /\ "Error in unmute()" \in fxLog
       /\ fxFile = NoneV

\* C4 as stated: the file is written only after every segment is resolved, a
\* run that failed at the host check, the download or a segment probe ends
\* in a failure with the output path untouched, and the file never holds
\* only part of the segment list.
C4_NoPartialFile ==
    /\ (fxFile # NoneV /\ fxPl # NoneV) =>
            Len(fxPlaylist.segments) = Len(fxPl[1].segments)
    /\ (fxPc = "done" /\ fxResult \in {"Err(PlaylistFix::URL)", "Err(reqwest)", "panic"})
            => fxFile = NoneV
    /\ fxFile # NoneV =>
            /\ fxFile[1].complete
            /\ fxFile[1].segments = fxPlaylist.segments

(* ---------------------- parse_timestamp: actions ----------------------- *)

\* the epoch of "2021-06-05 00:50:16"
BaseEpoch == 1622854216

\* instants whose five texts are parsed
TsInstants == {-1, 0, 951782400, 1000000000, 1657871396, 1709164800} \cup { BaseEpoch + d : d \in 0..MaxSpan }

\* texts no instant formats to: malformed, out of range, or of another shape
TsOddTexts ==
    { <<>>,
      <<"1","2","a","4">>,
      <<"9","9","9","9","9","9","9","9","9","9","9","9","9","9","9","9","9","9","9","9">>,
      <<"2","0","2","2","-","0","7","-","1","5"," ","0","7","4","9">>,
      <<"2","0","2","2","-","0","7","-","1","5"," ","0","7",":","4","9"," ","U","T","C">>,
      <<"U","T","C">>,
      <<"1","5","-","0","7","-","2","0","2","2"," ","0","7",":","4","9"," ","U","T","C">>,
      <<"2","0","2","2","-","0","7","-","1","5","T","0","7",":","4","9",":","5","6","Z">>,
      <<"2","0","2","2","-","0","7","-","1","5","T","0","7",":","4","9",":","5","6","+","0","2",":","0","0">>,
      <<"2","0","2","2","-","0","7","-","1","5","t","0","7",":","4","9",":","5","6",".","5","z">>,
      <<"2","0","2","2","-","1","3","-","1","5"," ","0","7",":","4","9",":","5","6">>,
      <<"2","0","2","2","-","0","2","-","3","0"," ","0","7",":","4","9",":","5","6">>,
      <<"2","0","2","2","-","0","7","-","1","5","T","0","7",":","4","9",":","5","6">>,
      <<"3","1","-","0","4","-","2","0","2","2"," ","0","7",":","4","9">>,
      <<"2","0","2","2","-","0","7","-","1","5"," ","0","7",":","4","9",":","5","6"," ">>,
      <<"2","0","2","2","-","0","7","-","1","5"," ","2","4",":","0","0",":","0","0">>,
      <<"0","0","7">> }

TsTexts ==
    UNION { {FmtUnix(e), FmtRfc3339(e), FmtWithUtc(e), FmtWoUtc(e), FmtWoSec(e)}
            : e \in TsInstants }
    \cup TsOddTexts

TsInit ==
    /\ TfIdle
    /\ FixIdle
    /\ DvIdle
    /\ CdIdle
    /\ ClIdle
    /\ flags = [threads |-> 0, simple |-> FALSE, verbose |-> FALSE, cdnfile |-> NoneV,
                progressbar |-> FALSE]
    /\ tsText \in TsTexts
    /\ tsPc = "start"
    /\ tsTried = <<>>
    /\ tsResult = NoneV

TsReturn(rule, r) ==
    /\ tsTried' = Append(tsTried, [rule |-> rule, ok |-> r.ok])
    /\ tsResult' = Some(r)
    /\ tsPc' = "done"

TsFail(rule, next) ==
    /\ tsTried' = Append(tsTried, [rule |-> rule, ok |-> FALSE])
    /\ tsPc' = next
    /\ UNCHANGED tsResult

\* if RE_UNIX.is_match(timestamp): the i64 parse decides
TsUnix ==
    /\ tsPc = "start"
    /\ ReUnixIsMatch(tsText)
    /\ TsReturn("unix", ParseI64(tsText))
    /\ UNCHANGED <<flags, tsText, fxVars, dvVars, cdVars, clVars, tfVars>>

\* else if RE_UTC.is_match(timestamp): format_with_utc decides
TsUtc ==
    /\ tsPc = "start"
    /\ ~ReUnixIsMatch(tsText)
    /\ ReUtcIsMatch(tsText)
    /\ TsReturn("with_utc", ParseFormat(tsText, format_with_utc))
    /\ UNCHANGED <<flags, tsText, fxVars, dvVars, cdVars, clVars, tfVars>>

\* else Rfc3339; its failure leads to format_wo_utc
TsRfc3339 ==
    /\ tsPc = "start"
    /\ ~ReUnixIsMatch(tsText)
    /\ ~ReUtcIsMatch(tsText)
    /\ LET r == ParseRfc3339(tsText)
       IN  IF r.ok THEN TsReturn("rfc3339", r) ELSE TsFail("rfc3339", "wo_utc")
    /\ UNCHANGED <<flags, tsText, fxVars, dvVars, cdVars, clVars, tfVars>>

\* format_wo_utc; its failure leads to format_wo_sec
TsWoUtc ==
    /\ tsPc = "wo_utc"
    /\ LET r == ParseFormat(tsText, format_wo_utc)
       IN  IF r.ok THEN TsReturn("wo_utc", r) ELSE TsFail("wo_utc", "wo_sec")
    /\ UNCHANGED <<flags, tsText, fxVars, dvVars, cdVars, clVars, tfVars>>

\* format_wo_sec decides
TsWoSec ==
    /\ tsPc = "wo_sec"
    /\ TsReturn("wo_sec", ParseFormat(tsText, format_wo_sec))
    /\ UNCHANGED <<flags, tsText, fxVars, dvVars, cdVars, clVars, tfVars>>

TsNext == TsUnix \/ TsUtc \/ TsRfc3339 \/ TsWoUtc \/ TsWoSec

SpecTs == TsInit /\ [][TsNext]_vars

(* -------------------- parse_timestamp: properties ---------------------- *)

TsRules(tried) == [i \in 1..Len(tried) |-> tried[i].rule]

TsDone == tsPc = "done"

\* C10: the five rules are tried in the stated order and the first rule whose
\* guard matches decides.  A text of digits only (the empty text included) is
\* parsed as an integer and by no other rule; a text containing UTC is parsed
\* with the UTC pattern and by no other rule; in both cases a failed parse is
\* the error returned.  Any other text goes through RFC 3339, then
\* YYYY-MM-DD HH:MM:SS, then DD-MM-YYYY HH:MM, each tried only after the one
\* before it failed, and the result is an error only when all three failed.
C10_RuleOrder ==
    TsDone =>
        LET digits == \A i \in 1..Len(tsText) : tsText[i] \in Digits
            utc == Contains(tsText, S_UTC)
            n == Len(tsTried)
        IN  /\ n >= 1
            /\ tsResult # NoneV
            /\ tsResult[1].ok = tsTried[n].ok
            /\ \A i \in 1..(n - 1) : ~tsTried[i].ok
            /\ digits => /\ TsRules(tsTried) = <<"unix">>
                         /\ tsResult[1] = ParseI64(tsText)
            /\ (~digits /\ utc) =>
                    /\ TsRules(tsTried) = <<"with_utc">>
                    /\ tsResult[1] = ParseFormat(tsText, format_with_utc)
            /\ (~digits /\ ~utc) =>
                    /\ TsRules(tsTried) = SubSeq(<<"rfc3339", "wo_utc", "wo_sec">>, 1, n)
                    /\ ~tsResult[1].ok => n = 3
                    /\ tsResult[1].ok =>
                          tsResult[1] = CASE n = 1 -> ParseRfc3339(tsText)
                                          [] n = 2 -> ParseFormat(tsText, format_wo_utc)
                                          [] n = 3 -> ParseFormat(tsText, format_wo_sec)
            /\ tsResult[1] = ParseTimestamp(tsText)

\* a text that is neither digits nor UTC failed RFC 3339, failed
\* YYYY-MM-DD HH:MM:SS, and was accepted by DD-MM-YYYY HH:MM
C10_Witness ==
    /\ TsDone
    /\ TsRules(tsTried) = <<"rfc3339", "wo_utc", "wo_sec">>
    /\ ~tsTried[1].ok
    /\ ~tsTried[2].ok
    /\ tsResult[1].ok
    /\ tsResult[1] = ParseFormat(tsText, format_wo_sec)

\* what the five texts of instant e give when the text parsed is one of them
TsRoundTrip(e) ==
    /\ tsText \in {FmtUnix(e), FmtRfc3339(e), FmtWithUtc(e), FmtWoUtc(e)}
            => tsResult[1] = ParseOk(e)
    /\ tsText = FmtWoSec(e) => tsResult[1] = ParseOk(e - (e % 60))

\* C11 as stated: for every instant t the decimal epoch text, the RFC 3339
\* text with +00:00, the UTC text and the YYYY-MM-DD HH:MM:SS text all give
\* t, and the DD-MM-YYYY HH:MM text gives t minus t mod 60.
C11_RoundTripEveryInstant ==
    TsDone => \A e \in TsInstants : TsRoundTrip(e)

\* C11 amended: the five texts give t (the last one t minus t mod 60) for
\* every instant t >= 0; for an instant before 1970 the four date texts
\* still give t (or its minute) and the decimal text, which starts with a
\* minus sign, is an error.
C11_RoundTripFrom1970 ==
    TsDone => \A e \in TsInstants :
        /\ e >= 0 => TsRoundTrip(e)
        /\ e < 0 =>
              /\ tsText \in {FmtRfc3339(e), FmtWithUtc(e), FmtWoUtc(e)}
                      => tsResult[1] = ParseOk(e)
              /\ tsText = FmtWoSec(e) => tsResult[1] = ParseOk(e - (e % 60))
              /\ tsText = FmtUnix(e) => ~tsResult[1].ok

\* the DD-MM-YYYY HH:MM text of an instant that is not on a whole minute was
\* parsed to second 0 of its minute
C11_Witness ==
    /\ TsDone
    /\ \E e \in TsInstants :
          /\ e > 0
          /\ e % 60 # 0
          /\ tsText = FmtWoSec(e)
          /\ tsResult[1] = ParseOk(e - (e % 60))

(* ------------------------- discovery: inputs --------------------------- *)

DvUsers == {"dansgaming"}
DvVods == {4221}

\* a stamp no rule of parse_timestamp accepts: 2022-07-12 1200
BadStamp == <<"2","0","2","2","-","0","7","-","1","2"," ","1","2","0","0">>

DvEpochs == { BaseEpoch + d : d \in 0..MaxSpan }

DvStamps == { FmtUnix(e) : e \in DvEpochs } \cup {FmtWoUtc(BaseEpoch), BadStamp}

\* every URL a command of the model can request
DvUrls ==
    { VodUrl(CDN_URLS[i], Sha1Hex20(u, v, n), u, v, n) :
        i \in 1..Len(CDN_URLS), u \in DvUsers, v \in DvVods, n \in DvEpochs }

DvFlags ==
    [threads : 0..MaxThreads, simple : BOOLEAN, verbose : BOOLEAN,
     cdnfile : {NoneV}, progressbar : BOOLEAN]

\* the variables of a command about to start
DvFresh ==
    /\ dvPc = "start"
    /\ dvCands = <<>>
    /\ dvNext = 1
    /\ dvInflight = {}
    /\ dvFetches = <<>>
    /\ dvFinal = NoneV
    /\ dvCheck = 1
    /\ dvValid = <<>>
    /\ dvHttp = <<>>
    /\ dvLast = NoneV
    /\ dvPrinted = <<>>
    /\ dvPb = 0
    /\ dvResult = Running

DvInit ==
    /\ TfIdle
    /\ FixIdle
    /\ TsIdle
    /\ CdIdle
    /\ ClIdle
    /\ flags \in DvFlags
    /\ dvCmd \in {"exact", "bruteforce"}
    /\ dvUser \in DvUsers
    /\ dvVod \in DvVods
    /\ dvFrom \in DvStamps
    /\ dvTo \in IF dvCmd = "exact" THEN {<<>>} ELSE DvStamps
    /\ DvFresh
    /\ dvPrev = NoneV
    /\ server = <<>>
    /\ stable = FALSE

(* ------------------------- discovery: actions -------------------------- *)

\* what a GET of url can come back with
CanRespond(url, r) ==
    /\ r \in Responses
    /\ stable => r = server[url]

DvReturn(result, lines) ==
    /\ dvResult' = result
    /\ dvPrinted' = lines
    /\ dvPc' = "done"

\* bruteforcer up to the first await: both timestamps, the candidate set, and
\* the start of the probe stream
DvStartBruteforce ==
    /\ dvPc = "start"
    /\ dvCmd = "bruteforce"
    /\ LET number1 == ParseTimestamp(dvFrom)
           number2 == ParseTimestamp(dvTo)
       IN  IF ~number1.ok \/ ~number2.ok
           THEN /\ DvReturn(ResultErr, <<>>)
                /\ UNCHANGED dvCands
           ELSE LET cands == AllFormats(dvUser, dvVod, number1.value, number2.value,
                                        flags.cdnfile)
                IN  /\ dvCands' = cands
                    /\ IF cands = <<>> /\ flags.threads > 0
                       THEN \* the stream ends at once and nothing was found
                            DvReturn(ResultOf(<<>>), ResultLines(<<>>, FALSE, flags.simple))
                       ELSE /\ dvPc' = "probe"
                            /\ UNCHANGED <<dvResult, dvPrinted>>
    /\ UNCHANGED <<flags, dvCmd, dvUser, dvVod, dvFrom, dvTo, dvNext, dvInflight,
                   dvFetches, dvFinal, dvCheck, dvValid, dvHttp, dvLast, dvPb, dvPrev,
                   server, stable>>
    /\ UNCHANGED <<fxVars, tsVars, cdVars, clVars, tfVars>>

\* exact up to the first await: the timestamp, the hash, the call of
\* check_availability
DvStartExact ==
    /\ dvPc = "start"
    /\ dvCmd = "exact"
    /\ LET number == ParseTimestamp(dvFrom)
       IN  IF ~number.ok
           THEN /\ DvReturn(ResultErr, <<>>)
                /\ UNCHANGED dvFinal
           ELSE /\ dvFinal' = Some([hash |-> Sha1Hex20(dvUser, dvVod, number.value),
                                    timestamp |-> number.value])
                /\ dvPc' = "check"
                /\ UNCHANGED <<dvResult, dvPrinted>>
    /\ UNCHANGED <<flags, dvCmd, dvUser, dvVod, dvFrom, dvTo, dvCands, dvNext,
                   dvInflight, dvFetches, dvCheck, dvValid, dvHttp, dvLast, dvPb, dvPrev,
                   server, stable>>
    /\ UNCHANGED <<fxVars, tsVars, cdVars, clVars, tfVars>>

\* a buffer that takes one future more than threads
BufferHasRoomOffByOne(inflight, threads) == Cardinality(inflight) <= threads

\* buffer_unordered(threads) takes a future while fewer than threads are queued
BufferHasRoom(inflight, threads) == Cardinality(inflight) < threads

\* buffer_unordered(flags.threads) takes the next candidate: its GET is sent
DvProbeSend ==
    /\ dvPc = "probe"
    /\ dvNext <= Len(dvCands)
    /\ BufferHasRoom(dvInflight, flags.threads)
    /\ dvHttp' = Append(dvHttp, [by |-> "probe", url |-> dvCands[dvNext].full_url])
    /\ dvInflight' = dvInflight \cup {dvNext}
    /\ dvNext' = dvNext + 1
    /\ UNCHANGED <<flags, dvCmd, dvUser, dvVod, dvFrom, dvTo, dvPc, dvCands, dvFetches,
                   dvFinal, dvCheck, dvValid, dvLast, dvPrinted, dvPb, dvResult, dvPrev,
                   server, stable>>
    /\ UNCHANGED <<fxVars, tsVars, cdVars, clVars, tfVars>>

\* a stream that ends as soon as no probe is in flight, candidates left or not
ProbeStreamEndsEarly(cands, next, inflight, i) == inflight = {i}

\* collect() returns: probe i is the only one in flight and stream::iter has
\* no candidate left
ProbeStreamEnds(cands, next, inflight, i) == next > Len(cands) /\ inflight = {i}

\* one probe completes; after the last one final_url is taken from fetches
DvProbeDone ==
    /\ dvPc = "probe"
    /\ \E i \in dvInflight, r \in Responses :
          /\ CanRespond(dvCands[i].full_url, r)
          /\ LET url == dvCands[i]
                 fetches == Append(dvFetches, IF ProbeHit(r) THEN Some(url) ELSE NoneV)
                 lines == ProbeLines(url.full_url, r, flags.verbose)
                 last == ProbeStreamEnds(dvCands, dvNext, dvInflight, i)
                 final_url == FinalUrl(fetches)
             IN  /\ dvLast' = Some([by |-> "probe", url |-> url.full_url, response |-> r])
                 /\ dvPb' = IF flags.progressbar THEN dvPb + 1 ELSE dvPb
                 /\ dvInflight' = dvInflight \ {i}
                 /\ IF ~last
                    THEN /\ dvFetches' = fetches
                         /\ dvPrinted' = lines
                         /\ UNCHANGED <<dvPc, dvFinal, dvResult>>
                    ELSE \* fetches is consumed by into_iter
                         /\ dvFetches' = <<>>
                         /\ IF final_url = NoneV
                            THEN /\ DvReturn(ResultOf(<<>>),
                                             lines \o ResultLines(<<>>, FALSE, flags.simple))
                                 /\ UNCHANGED dvFinal
                            ELSE /\ dvFinal' = Some([hash |-> final_url[1].hash,
                                                     timestamp |-> final_url[1].timestamp])
                                 /\ dvPc' = "check"
                                 /\ dvPrinted' = lines
                                 /\ UNCHANGED dvResult
    /\ UNCHANGED <<flags, dvCmd, dvUser, dvVod, dvFrom, dvTo, dvCands, dvNext, dvCheck,
                   dvValid, dvHttp, dvPrev, server, stable>>
    /\ UNCHANGED <<fxVars, tsVars, cdVars, clVars, tfVars>>

\* check_availability asks the next hostname of the compiled list; after the
\* last one the command reports valid_urls
DvCheckAvailability ==
    /\ dvPc = "check"
    /\ LET cdns == CompileCdnList(flags.cdnfile)
           url == CheckAvailabilityUrl(cdns[dvCheck], dvFinal[1].hash, dvUser, dvVod,
                                       dvFinal[1].timestamp)
       IN  \E r \in Responses :
              /\ CanRespond(url, r)
              /\ LET valid == CheckAvailabilityPush(dvValid, url, r)
                 IN  /\ dvHttp' = Append(dvHttp, [by |-> "check_availability", url |-> url])
                     /\ dvLast' = Some([by |-> "check_availability", url |-> url,
                                         response |-> r])
                     /\ dvValid' = valid
                     /\ dvCheck' = dvCheck + 1
                     /\ IF dvCheck < Len(cdns)
                        THEN /\ dvPrinted' = <<>>
                             /\ UNCHANGED <<dvPc, dvResult>>
                        ELSE DvReturn(ResultOf(valid),
                                      ResultLines(valid, TRUE, flags.simple))
    /\ UNCHANGED <<flags, dvCmd, dvUser, dvVod, dvFrom, dvTo, dvCands, dvNext,
                   dvInflight, dvFetches, dvFinal, dvPb, dvPrev, server, stable>>
    /\ UNCHANGED <<fxVars, tsVars, cdVars, clVars, tfVars>>

Next == DvStartBruteforce \/ DvStartExact \/ DvProbeSend \/ DvProbeDone
            \/ DvCheckAvailability

Spec == DvInit /\ [][Next]_vars

\* main_interface: the list handed to try_to_fix, empty for Ok(None)
ValidUrlsOf(result) == IF result.value # NoneV THEN result.value[1] ELSE <<>>

\* the guard of try_to_fix
TryToFixAsks(valid_urls) == valid_urls # <<>> /\ valid_urls[1].muted

\* what the user can answer to "Do you want to download the fixed playlist? (Y/n)"
TfResponses == {"y", "Y", "", "n"}

\* response.to_lowercase()
ToLowercase(response) == IF response = "Y" THEN "y" ELSE response

\* main_interface after execute: an Err is logged and the loop continues;
\* an Ok value goes to try_to_fix, which asks and, on "y" or an empty
\* answer, executes Fix on the first URL
TryToFix(result) ==
    IF result.tag = "Ok" /\ TryToFixAsks(ValidUrlsOf(result))
    THEN /\ tfAsked' = TRUE
         /\ \E response \in TfResponses :
               tfFix' = IF ToLowercase(response) \in {"y", ""}
                        THEN Some([url |-> ValidUrlsOf(result)[1].url, output |-> NoneV,
                                   slow |-> FALSE])
                        ELSE tfFix
    ELSE UNCHANGED tfVars

\* main_interface: the command returned, its result goes to try_to_fix and
\* the loop reads the next command
DvAgain ==
    /\ dvPc = "done"
    /\ dvPrev = NoneV
    /\ dvPrev' = Some([cmd |-> dvCmd, from |-> dvFrom, to |-> dvTo, result |-> dvResult])
    /\ dvCmd' \in {"exact", "bruteforce"}
    /\ dvFrom' \in DvStamps
    /\ dvTo' \in IF dvCmd' = "exact" THEN {<<>>} ELSE DvStamps
    /\ dvPc' = "start"
    /\ dvCands' = <<>>
    /\ dvNext' = 1
    /\ dvInflight' = {}
    /\ dvFetches' = <<>>
    /\ dvFinal' = NoneV
    /\ dvCheck' = 1
    /\ dvValid' = <<>>
    /\ dvHttp' = <<>>
    /\ dvLast' = NoneV
    /\ dvPrinted' = <<>>
    /\ dvPb' = 0
    /\ dvResult' = Running
    /\ TryToFix(dvResult)
    /\ UNCHANGED <<flags, dvUser, dvVod, server, stable>>
    /\ UNCHANGED <<fxVars, tsVars, cdVars, clVars>>

\* a session of two commands against a server whose answers depend on the URL
\* only; main_interface forces the progress bar on
EquivInit ==
    /\ TfIdle
    /\ FixIdle
    /\ TsIdle
    /\ CdIdle
    /\ ClIdle
    /\ flags \in [threads : 0..MaxThreads, simple : {TRUE}, verbose : {FALSE},
                  cdnfile : {NoneV}, progressbar : {TRUE}]
    /\ dvCmd = "exact"
    /\ dvUser \in DvUsers
    /\ dvVod \in DvVods
    /\ dvFrom \in DvStamps
    /\ dvTo = <<>>
    /\ DvFresh
    /\ dvPrev = NoneV
    /\ server \in [DvUrls -> {"200", "404"}]
    /\ stable = TRUE

EquivNext == Next \/ DvAgain

SpecEquiv == EquivInit /\ [][EquivNext]_vars

(* ----------------------- discovery: properties ------------------------- *)

DvIsBruteforce == dvCmd = "bruteforce"

\* both stamps of the bruteforce call parse and the candidate set is built
DvRangeBuilt ==
    /\ DvIsBruteforce
    /\ dvPc # "start"
    /\ ParseTimestamp(dvFrom).ok
    /\ ParseTimestamp(dvTo).ok

DvProbeUrls == SelectSeq(dvHttp, LAMBDA h : h.by = "probe")

\* C5: for a range [t0, t1] with t0 <= t1 and k compiled hostnames the
\* candidate set holds exactly one candidate per (epoch, hostname) pair,
\* (t1 - t0 + 1) * k in all with both endpoints, and when bruteforcer reports
\* not found without a hit every candidate has been probed.
C5_CandidateCount ==
    LET t0 == ParseTimestamp(dvFrom).value
        t1 == ParseTimestamp(dvTo).value
        cdns == CompileCdnList(flags.cdnfile)
    IN  (DvRangeBuilt /\ t0 <= t1) =>
            /\ Len(dvCands) = (t1 - t0 + 1) * Len(cdns)
            /\ \A n \in t0..t1 : \A c \in 1..Len(cdns) :
                  Cardinality({ i \in 1..Len(dvCands) :
                                   /\ dvCands[i].timestamp = n
                                   /\ dvCands[i].full_url.cdn = cdns[c]
                                   /\ dvCands[i].full_url.number = n }) = 1
            /\ (dvPc = "done" /\ dvFinal = NoneV) =>
                  /\ dvResult = [tag |-> "Ok", value |-> NoneV]
                  /\ Len(DvProbeUrls) = Len(dvCands)
                  /\ \A i \in 1..Len(dvCands) :
                        \E j \in 1..Len(DvProbeUrls) :
                            DvProbeUrls[j].url = dvCands[i].full_url

\* a range of two epochs or more was probed to the end and nothing was found
C5_Witness ==
    /\ DvRangeBuilt
    /\ ParseTimestamp(dvFrom).value < ParseTimestamp(dvTo).value
    /\ dvPc = "done"
    /\ dvFinal = NoneV
    /\ Len(DvProbeUrls) = Len(dvCands)
    /\ Len(dvCands) >= 4

\* C6: with responses a fixed function of the URL, bruteforcer on a range
\* whose two stamps resolve to the same epoch e returns what exact returned
\* for epoch e, for the same username, vod and CDN list.
C6_CollapsedRangeEqualsExact ==
    (/\ stable
     /\ dvPc = "done"
     /\ DvIsBruteforce
     /\ dvPrev # NoneV
     /\ dvPrev[1].cmd = "exact"
     /\ ParseTimestamp(dvPrev[1].from).ok
     /\ ParseTimestamp(dvFrom) = ParseTimestamp(dvPrev[1].from)
     /\ ParseTimestamp(dvTo) = ParseTimestamp(dvPrev[1].from))
    => dvResult = dvPrev[1].result

\* exact found mirrors for an epoch, and a bruteforce call over the collapsed
\* range of that epoch, given in another timestamp format, has returned
C6_Witness ==
    /\ stable
    /\ dvPc = "done"
    /\ DvIsBruteforce
    /\ dvPrev # NoneV
    /\ dvPrev[1].cmd = "exact"
    /\ dvPrev[1].result.value # NoneV
    /\ dvFrom # dvTo
    /\ ParseTimestamp(dvFrom).ok
    /\ ParseTimestamp(dvFrom) = ParseTimestamp(dvPrev[1].from)
    /\ ParseTimestamp(dvTo) = ParseTimestamp(dvPrev[1].from)

\* C7: a run of exact or bruteforcer ends in Ok(Some(non-empty list)), in
\* Ok(None), or in Err for a timestamp that does not parse.  Ok(Some(empty))
\* is never returned, a run that issued a request never ends in Err, and a
\* hit that check_availability confirms on no hostname gives Ok(None).
C7_ThreeOutcomes ==
    dvPc = "done" =>
        /\ dvResult.tag \in {"Ok", "Err"}
        /\ (dvResult.tag = "Ok" /\ dvResult.value # NoneV) =>
              /\ dvResult.value[1] # <<>>
              /\ dvResult.value[1] = dvValid
        /\ dvResult.tag = "Err" =>
              /\ dvResult.value = NoneV
              /\ dvHttp = <<>>
              /\ \/ ~ParseTimestamp(dvFrom).ok
                 \/ DvIsBruteforce /\ ~ParseTimestamp(dvTo).ok
        /\ dvHttp # <<>> => dvResult.tag = "Ok"
        /\ dvValid = <<>> => (dvResult.tag = "Ok" => dvResult.value = NoneV)

\* a bruteforce run had a hit, check_availability confirmed no hostname, and
\* the run ended in Ok(None)
C7_Witness ==
    /\ dvPc = "done"
    /\ DvIsBruteforce
    /\ dvFinal # NoneV
    /\ dvValid = <<>>
    /\ dvResult = [tag |-> "Ok", value |-> NoneV]

DvProbeMsgs ==
    {"Got it!", "Still going", "Reqwest error",
     "You might be getting throttled (or your connection is dead)!"}

DvProbeLinesPrinted == SelectSeq(dvPrinted, LAMBDA l : l.msg \in DvProbeMsgs)

\* C8: the latest completed probe is a hit exactly on status 200; on 403 and
\* 404 it is a miss with a line printed only when verbose; on any other
\* status it is a miss and the throttling line is printed whatever the flags;
\* on a transport failure it is a miss and the error is printed.
C8_ProbeClassification ==
    (DvIsBruteforce /\ dvLast # NoneV /\ dvLast[1].by = "probe") =>
        LET r == dvLast[1].response
            u == dvLast[1].url
            msgs == [i \in 1..Len(DvProbeLinesPrinted) |-> DvProbeLinesPrinted[i].msg]
        IN  /\ dvPc = "probe" =>
                  /\ dvFetches # <<>>
                  /\ LET f == dvFetches[Len(dvFetches)]
                     IN  /\ (r = "200") <=> (f # NoneV)
                         /\ f # NoneV => f[1].full_url = u
            /\ (dvPc \in {"check", "done"} /\ r = "200") => dvFinal # NoneV
            /\ (dvPc = "done" /\ dvFinal = NoneV) => r # "200"
            /\ r = "200" => msgs = IF flags.verbose THEN <<"Got it!">> ELSE <<>>
            /\ r \in {"403", "404"} =>
                  msgs = IF flags.verbose THEN <<"Still going">> ELSE <<>>
            /\ r = TransportFailure => msgs = <<"Reqwest error">>
            /\ r \notin {"200", "403", "404", TransportFailure} =>
                  msgs = <<"You might be getting throttled (or your connection is dead)!">>
            /\ \A i \in 1..Len(DvProbeLinesPrinted) : DvProbeLinesPrinted[i].url = u

\* a probe answered by another status, with no display flag set, printed the
\* throttling line and was a miss
C8_Witness ==
    /\ DvIsBruteforce
    /\ dvPc = "probe"
    /\ dvLast # NoneV
    /\ dvLast[1].response = "500"
    /\ ~flags.verbose /\ ~flags.progressbar /\ flags.simple
    /\ dvFetches # <<>>
    /\ dvFetches[Len(dvFetches)] = NoneV
    /\ Len(dvPrinted) = 1

\* C9: at every moment of a bruteforce probe run at most flags.threads GET
\* requests have been sent and have not completed.
C9_BoundedInFlight ==
    DvIsBruteforce => Cardinality(dvInflight) <= flags.threads

\* the buffer is full while candidates are still waiting
C9_Witness ==
    /\ DvIsBruteforce
    /\ flags.threads >= 2
    /\ Cardinality(dvInflight) = flags.threads
    /\ dvNext <= Len(dvCands)

\* a stamp of the running command is the text no rule accepts
DvStampFails ==
    \/ dvFrom = BadStamp
    \/ DvIsBruteforce /\ dvTo = BadStamp

HostX == <<"x",".","n","e","t">>
HostA == <<"a",".","n","e","t">>

SeqsUpTo(S, n) == UNION { [1..k -> S] : k \in 0..n }

\* the hostnames an override can name: two new ones and one of the baseline
CdHostPool == {HostX, HostA, CDN_URLS[1]}

\* the lines a text override can hold: a hostname, a hostname between
\* spaces, a blank line, a hostname of the baseline
CdLinePool == {HostX, <<" ">> \o HostA \o <<" ">>, <<>>, CDN_URLS[1]}

RECURSIVE JoinLines(_)
\* the text of a file written line by line with writeln!
JoinLines(ls) ==
    IF ls = <<>> THEN <<>> ELSE Head(ls) \o <<"\n">> \o JoinLines(Tail(ls))

CdTexts == { JoinLines(ls) : ls \in SeqsUpTo(CdLinePool, MaxOverride) }

SerdeExts == {"json", "toml", "yaml", "yml"}

\* the files an override path can name.  opens: File::open succeeds; reads:
\* read_to_string succeeds (it fails on a directory and on content that is
\* not UTF-8); parsed: the CDNFile the serde parser of the extension returns
CdFiles ==
    { f \in [opens : BOOLEAN, reads : BOOLEAN,
             ext : { Some(e) : e \in SerdeExts }, text : {<<>>},
             parsed : {NoneV} \cup { Some(l) : l \in SeqsUpTo(CdHostPool, MaxOverride) }]
            \cup [opens : BOOLEAN, reads : BOOLEAN, ext : {Some("txt"), NoneV},
                  text : CdTexts, parsed : {NoneV}]
            \cup [opens : BOOLEAN, reads : BOOLEAN, ext : {Some("png")},
                  text : {<<>>}, parsed : {NoneV}]
        : f.reads => f.opens }

CdArgs == {NoneV} \cup { Some(f) : f \in CdFiles }

CdRunning == [tag |-> "running", value |-> <<>>]

CdInit ==
    /\ TfIdle
    /\ FixIdle
    /\ TsIdle
    /\ DvIdle
    /\ ClIdle
    /\ flags \in [threads : {1}, simple : {FALSE}, verbose : {FALSE},
                  cdnfile : CdArgs, progressbar : {FALSE}]
    /\ cdPc = "start"
    /\ cdResult = CdRunning
    /\ cdPrev = NoneV

(* ---------------------- compile_cdn_list: actions ---------------------- *)

CdReturn(v) ==
    /\ cdResult' = [tag |-> "Ok", value |-> v]
    /\ cdPc' = "done"

\* the match on cdn_file_path: None returns the baseline; Some opens the file
CdOpen ==
    /\ cdPc = "start"
    /\ IF flags.cdnfile = NoneV \/ ~flags.cdnfile[1].opens
       THEN CdReturn(CompileCdnList(flags.cdnfile))
       ELSE cdPc' = "read" /\ UNCHANGED cdResult
    /\ UNCHANGED <<flags, cdPrev, fxVars, tsVars, dvVars, clVars, tfVars>>

\* f.read_to_string(&mut cdn_string).unwrap()
CdRead ==
    /\ cdPc = "read"
    /\ IF flags.cdnfile[1].reads
       THEN cdPc' = "parse" /\ UNCHANGED cdResult
       ELSE /\ cdResult' = [tag |-> "panic", value |-> <<>>]
            /\ cdPc' = "done"
    /\ UNCHANGED <<flags, cdPrev, fxVars, tsVars, dvVars, clVars, tfVars>>

\* the match on the extension, the merge, and the return
CdParse ==
    /\ cdPc = "parse"
    /\ CdReturn(CompileCdnList(flags.cdnfile))
    /\ UNCHANGED <<flags, cdPrev, fxVars, tsVars, dvVars, clVars, tfVars>>

\* bruteforcer compiles the list again for the next epoch of its range
CdAgain ==
    /\ cdPc = "done"
    /\ cdPrev = NoneV
    /\ cdPrev' = Some(cdResult)
    /\ cdResult' = CdRunning
    /\ cdPc' = "start"
    /\ UNCHANGED <<flags, fxVars, tsVars, dvVars, clVars, tfVars>>

CdNext == CdOpen \/ CdRead \/ CdParse \/ CdAgain

SpecCdn == CdInit /\ [][CdNext]_vars

(* -------------------- compile_cdn_list: properties --------------------- *)

CdDone == cdPc = "done"

\* the override argument is absent, or a file that cannot be opened, or a
\* file whose content was read
CdArgReadable ==
    \/ flags.cdnfile = NoneV
    \/ ~flags.cdnfile[1].opens
    \/ flags.cdnfile[1].reads

\* C13: for an override argument that is absent, unopenable, unparsable, of
\* an unrecognized extension, or valid in a supported format, compile_cdn_list
\* returns a list that contains every hostname of the built-in baseline.
C13_BaselineKept ==
    (CdDone /\ CdArgReadable) =>
        /\ cdResult.tag = "Ok"
        /\ \A i \in 1..Len(CDN_URLS) : CDN_URLS[i] \in Range(cdResult.value)

\* a JSON override naming one new hostname was merged: the result holds the
\* new hostname and the whole baseline
C13_Witness ==
    /\ CdDone
    /\ flags.cdnfile # NoneV
    /\ flags.cdnfile[1].ext = Some("json")
    /\ flags.cdnfile[1].parsed = Some(<<HostX>>)
    /\ cdResult.tag = "Ok"
    /\ HostX \in Range(cdResult.value)
    /\ \A i \in 1..Len(CDN_URLS) : CDN_URLS[i] \in Range(cdResult.value)

Whitespace == {" ", "\n"}

RECURSIVE TrimStart(_)
TrimStart(t) == IF t # <<>> /\ Head(t) \in Whitespace THEN TrimStart(Tail(t)) ELSE t

RECURSIVE TrimEnd(_)
TrimEnd(t) ==
    IF t # <<>> /\ t[Len(t)] \in Whitespace THEN TrimEnd(SubSeq(t, 1, Len(t) - 1)) ELSE t

\* the hostnames a text override names: its lines without surrounding
\* whitespace, blank lines left out
HostnamesOfText(text) ==
    SelectSeq([i \in 1..Len(Lines(text)) |-> TrimStart(TrimEnd(Lines(text)[i]))],
              LAMBDA l : l # <<>>)

\* the hostnames an override file names
CdHostnames(f) ==
    IF f.ext # NoneV /\ f.ext[1] \in SerdeExts THEN f.parsed[1]
    ELSE HostnamesOfText(f.text)

\* the override was opened, read and parsed in the format of its extension
CdParsedOk ==
    /\ flags.cdnfile # NoneV
    /\ flags.cdnfile[1].opens
    /\ flags.cdnfile[1].reads
    /\ \/ flags.cdnfile[1].ext \in {NoneV, Some("txt")}
       \/ /\ flags.cdnfile[1].ext[1] \in SerdeExts
          /\ flags.cdnfile[1].parsed # NoneV

NoDuplicates(v) == \A i, j \in 1..Len(v) : v[i] = v[j] => i = j

\* C14 as stated: when the override parses, the list returned has no
\* duplicate entry, its elements are exactly the baseline hostnames and the
\* hostnames of the override, and compiling again gives the same list.
C14_UnionOfBaselineAndOverride ==
    (CdDone /\ CdParsedOk) =>
        /\ cdResult.tag = "Ok"
        /\ NoDuplicates(cdResult.value)
        /\ Range(cdResult.value) = Range(CDN_URLS) \cup Range(CdHostnames(flags.cdnfile[1]))
        /\ cdPrev # NoneV => cdPrev[1] = cdResult

\* handling the override fails: the file cannot be opened, its content
\* cannot be read, the parser of its extension rejects it, or the extension
\* is not a recognized one
CdFailure ==
    /\ flags.cdnfile # NoneV
    /\ LET f == flags.cdnfile[1]
       IN  \/ ~f.opens
           \/ ~f.reads
           \/ f.ext # NoneV /\ f.ext[1] \in SerdeExts /\ f.parsed = NoneV
           \/ f.ext # NoneV /\ f.ext[1] \notin SerdeExts \cup {"txt"}

\* C15 as stated: a failure while handling the override file never aborts
\* compile_cdn_list; the call returns and its result is exactly the baseline.
C15_FailureGivesBaseline ==
    (CdDone /\ CdFailure) =>
        /\ cdResult.tag = "Ok"
        /\ cdResult.value = CDN_URLS

(* ------------------ discovery: the availability check ------------------ *)

DvCheckUrls ==
    LET h == SelectSeq(dvHttp, LAMBDA r : r.by = "check_availability")
    IN  [i \in 1..Len(h) |-> h[i].url]

\* C16: for the confirmed hash and epoch the availability check issues one
\* GET per hostname of the compiled CDN list, in list order, and the mirror
\* list returned holds exactly the URLs of the hostnames that answered 200,
\* each once, in the order of the list, each with muted = false.
C16_MirrorListIsThe200s ==
    (stable /\ dvPc = "done" /\ dvFinal # NoneV) =>
        LET cdns == CompileCdnList(flags.cdnfile)
            urls == [i \in 1..Len(cdns) |->
                        VodUrl(cdns[i], dvFinal[1].hash, dvUser, dvVod,
                               dvFinal[1].timestamp)]
            live == SelectSeq(urls, LAMBDA u : server[u] = "200")
            mirrors == [i \in 1..Len(live) |-> [url |-> live[i], muted |-> FALSE]]
        IN  /\ DvCheckUrls = urls
            /\ dvResult = IF mirrors = <<>> THEN [tag |-> "Ok", value |-> NoneV]
                          ELSE [tag |-> "Ok", value |-> Some(mirrors)]

\* a bruteforce run was confirmed by a hit on the second hostname only: both
\* hostnames were asked again and the list returned holds the second alone
C16_Witness ==
    /\ stable
    /\ DvIsBruteforce
    /\ dvPc = "done"
    /\ dvFinal # NoneV
    /\ Len(DvCheckUrls) = Len(CDN_URLS)
    /\ dvResult.value # NoneV
    /\ Len(dvResult.value[1]) = 1
    /\ dvResult.value[1][1].url.cdn = CDN_URLS[2]
    /\ ~dvResult.value[1][1].muted

(* ------------------------- clip_bruteforce ----------------------------- *)

\* https://clips-media-assets2.twitch.tv/{vod}-offset-{number}.mp4
ClipUrl(vod, number) ==
    [host |-> "clips-media-assets2.twitch.tv", vod |-> vod, offset |-> number]

\* start..end taken with its last offset
ClipRangeInclusive(start, end) == start..end

\* (start..end).into_par_iter()
ClipRange(start, end) == { n \in start..end : n < end }

RECURSIVE ClipCollectMuted(_, _)
\* a collect() whose ReturnURLs are marked muted
ClipCollectMuted(vod, hits) ==
    IF hits = {} THEN <<>>
    ELSE LET n == CHOOSE x \in hits : \A y \in hits : x <= y
         IN  <<[url |-> ClipUrl(vod, n), muted |-> TRUE]>> \o ClipCollectMuted(vod, hits \ {n})

RECURSIVE ClipCollect(_, _)
\* collect() of the parallel filter_map: the Some values in the order of the range
ClipCollect(vod, hits) ==
    IF hits = {} THEN <<>>
    ELSE LET n == CHOOSE x \in hits : \A y \in hits : x <= y
         IN  <<[url |-> ClipUrl(vod, n), muted |-> FALSE]>> \o ClipCollect(vod, hits \ {n})

ClOffsets == 0..(MaxSpan + 1)

ClInit ==
    /\ TfIdle
    /\ FixIdle
    /\ TsIdle
    /\ DvIdle
    /\ CdIdle
    /\ flags \in [threads : {1}, simple : BOOLEAN, verbose : BOOLEAN,
                  cdnfile : {NoneV}, progressbar : BOOLEAN]
    /\ clVod \in DvVods
    /\ clStart \in ClOffsets
    /\ clEnd \in ClOffsets
    /\ clPc = "start"
    /\ clTodo = {}
    /\ clInflight = {}
    /\ clHttp = <<>>
    /\ clRes = {}
    /\ clResult = Running

\* the two parallel iterators over the range are built
ClStart ==
    /\ clPc = "start"
    /\ clTodo' = ClipRange(clStart, clEnd)
    /\ clPc' = "probe"
    /\ UNCHANGED <<clVod, clStart, clEnd, clInflight, clHttp, clRes, clResult>>
    /\ UNCHANGED <<flags, fxVars, tsVars, dvVars, cdVars, tfVars>>

\* a worker takes an offset of the range and sends its GET
ClSend ==
    /\ clPc = "probe"
    /\ \E n \in clTodo :
          /\ clTodo' = clTodo \ {n}
          /\ clInflight' = clInflight \cup {n}
          /\ clHttp' = Append(clHttp, ClipUrl(clVod, n))
    /\ UNCHANGED <<clVod, clStart, clEnd, clPc, clRes, clResult>>
    /\ UNCHANGED <<flags, fxVars, tsVars, dvVars, cdVars, tfVars>>

\* a GET completes: Some(ReturnURL) on status 200, None otherwise
ClDone ==
    /\ clPc = "probe"
    /\ \E n \in clInflight, r \in Responses :
          /\ clInflight' = clInflight \ {n}
          /\ clRes' = IF r = "200" THEN clRes \cup {n} ELSE clRes
    /\ UNCHANGED <<clVod, clStart, clEnd, clPc, clTodo, clHttp, clResult>>
    /\ UNCHANGED <<flags, fxVars, tsVars, dvVars, cdVars, tfVars>>

\* collect() has every value: the function returns Ok(Some(res))
ClReturn ==
    /\ clPc = "probe"
    /\ clTodo = {}
    /\ clInflight = {}
    /\ clResult' = [tag |-> "Ok", value |-> Some(ClipCollect(clVod, clRes))]
    /\ clPc' = "done"
    /\ UNCHANGED <<clVod, clStart, clEnd, clTodo, clInflight, clHttp, clRes>>
    /\ UNCHANGED <<flags, fxVars, tsVars, dvVars, cdVars, tfVars>>

ClNext == ClStart \/ ClSend \/ ClDone \/ ClReturn

SpecClip == ClInit /\ [][ClNext]_vars

\* C17 as stated: for start <= end, clip_bruteforce issues exactly one GET
\* for every offset n with start <= n <= end, the end offset included, each
\* to the clip URL of n, and returns exactly the URLs that answered 200.
C17_EveryOffsetThroughEnd ==
    (clPc = "done" /\ clStart <= clEnd) =>
        /\ \A n \in clStart..clEnd :
              Cardinality({ i \in 1..Len(clHttp) : clHttp[i] = ClipUrl(clVod, n) }) = 1
        /\ Len(clHttp) = clEnd - clStart + 1
        /\ clResult = [tag |-> "Ok", value |-> Some(ClipCollect(clVod, clRes))]

(* ------------------------ fix: malformed URLs -------------------------- *)

\* fewer than three slash-separated parts follow the scheme
UrlMalformed(url) == Len(FixRegexFrom(url, 1, <<>>)) < 4

FixErrors == {"Err(PlaylistFix::URL)", "Err(reqwest)", "Err(io)"}

\* C18 as stated: a URL that passes the host check and is malformed makes
\* fix return an error value; fix does not crash on it and does not go on
\* with a partly formed base URL.
C18_MalformedUrlReturnsErr ==
    (HostCheck(fxUrl) /\ UrlMalformed(fxUrl) /\ fxPc # "start") =>
        /\ fxPc = "done"
        /\ fxResult \in FixErrors
        /\ fxHttp = <<>>

(* ------------------ discovery: one GET per candidate ------------------- *)

\* the number of probe GETs issued for candidate i
DvProbesOf(i) ==
    Cardinality({ j \in 1..Len(DvProbeUrls) : DvProbeUrls[j].url = dvCands[i].full_url })

\* C19: in a bruteforce probe run no candidate is ever requested twice, and
\* when the probe run has ended every candidate has received exactly one
\* GET, whatever the other probes answered (a non-200 status, a transport
\* failure, or a hit).
C19_OneGetPerCandidate ==
    DvRangeBuilt =>
        /\ \A i \in 1..Len(dvCands) : DvProbesOf(i) <= 1
        /\ Len(DvProbeUrls) <= Len(dvCands)
        /\ dvPc \in {"check", "done"} =>
              \A i \in 1..Len(dvCands) : DvProbesOf(i) = 1

\* with one probe at a time, the first probe ended in a transport failure
\* and the next candidate has been requested after it
C19_Witness ==
    /\ DvRangeBuilt
    /\ flags.threads = 1
    /\ dvPc = "probe"
    /\ Len(dvFetches) = 1
    /\ dvLast # NoneV
    /\ dvLast[1].response = TransportFailure
    /\ Cardinality(dvInflight) = 1
    /\ Len(DvProbeUrls) = 2

(* --------------------- discovery: termination -------------------------- *)

\* the calls whose termination is checked: every thread count, the display
\* flags off
FairInit ==
    /\ DvInit
    /\ flags.simple
    /\ ~flags.verbose
    /\ ~flags.progressbar

\* once a command was called, every GET that was sent completes and the
\* executor polls the future of the command whenever it can make a step
SpecFair ==
    FairInit /\ [][Next]_vars
             /\ WF_vars(DvProbeSend \/ DvProbeDone \/ DvCheckAvailability)

\* C20 as stated: provided every issued GET completes, a bruteforcer call
\* with a non-empty candidate set returns, for every value of flags.threads,
\* the 0 of Cli::default() included.
C20_BruteforcerReturns ==
    (DvIsBruteforce /\ dvPc = "probe" /\ dvCands # <<>>) ~> (dvPc = "done")

\* the same for the values of flags.threads the buffer can work with
DvBruteforcerReturnsWithThreads ==
    (DvIsBruteforce /\ dvPc = "probe" /\ dvCands # <<>> /\ flags.threads > 0)
        ~> (dvPc = "done")

(* ------------------ discovery: order of completions -------------------- *)

\* a session that starts with a bruteforce call, against a server whose
\* answers depend on the URL only
OrderInit ==
    /\ TfIdle
    /\ FixIdle
    /\ TsIdle
    /\ CdIdle
    /\ ClIdle
    /\ flags \in [threads : 0..MaxThreads, simple : {TRUE}, verbose : {FALSE},
                  cdnfile : {NoneV}, progressbar : {TRUE}]
    /\ dvCmd = "bruteforce"
    /\ dvUser \in DvUsers
    /\ dvVod \in DvVods
    /\ dvFrom \in DvStamps
    /\ dvTo \in DvStamps
    /\ DvFresh
    /\ dvPrev = NoneV
    /\ server \in [DvUrls -> {"200", "404"}]
    /\ stable = TRUE

SpecOrder == OrderInit /\ [][EquivNext]_vars

\* the same bruteforce call was made twice in a row and both calls returned
DvSameCallTwice ==
    /\ stable
    /\ dvPc = "done"
    /\ DvIsBruteforce
    /\ dvPrev # NoneV
    /\ dvPrev[1].cmd = "bruteforce"
    /\ dvPrev[1].from = dvFrom
    /\ dvPrev[1].to = dvTo

\* the epochs of the range that have a candidate answering 200
DvLiveEpochs ==
    { n \in DvEpochs :
        /\ ParseTimestamp(dvFrom).ok /\ ParseTimestamp(dvTo).ok
        /\ n \in EpochRange(ParseTimestamp(dvFrom).value, ParseTimestamp(dvTo).value)
        /\ \E i \in 1..Len(CDN_URLS) :
              server[VodUrl(CDN_URLS[i], Sha1Hex20(dvUser, dvVod, n), dvUser, dvVod, n)]
                  = "200" }

\* C21 as stated: with responses a fixed function of the URL, two runs of
\* the same bruteforce call return the same result whatever the order in
\* which their probes completed, also when candidates of more than one epoch
\* answer 200.
C21_ResultIndependentOfOrder ==
    DvSameCallTwice => dvResult = dvPrev[1].result

\* the same with at most one epoch of the range answering 200
DvOrderIndependentOneEpoch ==
    (DvSameCallTwice /\ Cardinality(DvLiveEpochs) <= 1) => dvResult = dvPrev[1].result

(* ------------------ compile_cdn_list: order of the list ---------------- *)

\* strictly ascending as byte strings: sorted, and no entry twice
StrictlyAscending(v) == \A i \in 1..(Len(v) - 1) : StrLess(v[i], v[i + 1], 1)

\* C22 as stated: on every return path (no override path; an override that
\* cannot be opened or parsed or has an unrecognized extension; an override
\* that parses) the list compile_cdn_list returns is sorted in ascending
\* order and has no duplicate entry.
C22_SortedOnEveryPath ==
    (CdDone /\ cdResult.tag = "Ok") =>
        /\ StrictlyAscending(cdResult.value)
        /\ NoDuplicates(cdResult.value)

\* the same on the paths that merge an override into the baseline
CdSortedWhenMerged ==
    (CdDone /\ CdParsedOk) =>
        /\ StrictlyAscending(cdResult.value)
        /\ NoDuplicates(cdResult.value)

\* on the other paths the baseline comes back in its declaration order
CdBaselineAsDeclared ==
    (CdDone /\ cdResult.tag = "Ok" /\ ~CdParsedOk) => cdResult.value = CDN_URLS

(* ---------------- compile_cdn_list: text override files ---------------- *)

\* the override is a .txt file or a file without extension and was read
CdTextOverride ==
    /\ flags.cdnfile # NoneV
    /\ flags.cdnfile[1].opens
    /\ flags.cdnfile[1].reads
    /\ flags.cdnfile[1].ext \in {NoneV, Some("txt")}

\* C23 as stated: for a .txt override or one without extension the entries
\* added to the baseline are exactly the lines of the file without their
\* surrounding whitespace, one per non-blank line; a blank line adds nothing
\* (not the empty string) and two lines never merge into one hostname.
C23_OneHostnamePerLine ==
    (CdDone /\ CdTextOverride) =>
        /\ cdResult.tag = "Ok"
        /\ Range(cdResult.value) \ Range(CDN_URLS)
               = Range(HostnamesOfText(flags.cdnfile[1].text)) \ Range(CDN_URLS)
        /\ <<>> \notin Range(cdResult.value)

\* the same for a .txt file each of whose lines is a bare hostname
CdTxtBareLines ==
    (/\ CdDone
     /\ CdTextOverride
     /\ flags.cdnfile[1].ext = Some("txt")
     /\ \A i \in 1..Len(Lines(flags.cdnfile[1].text)) :
           LET l == Lines(flags.cdnfile[1].text)[i]
           IN  l # <<>> /\ \A k \in 1..Len(l) : l[k] \notin Whitespace)
    => Range(cdResult.value)
           = Range(CDN_URLS) \cup Range(HostnamesOfText(flags.cdnfile[1].text))

(* --------------------- discovery: the candidates ----------------------- *)

IsHexChar(c) == c[1] = "hex"

\* C24: every candidate of bruteforcer for epoch n and hostname cdn has
\* timestamp n, a hash of exactly 20 hex characters that depends on
\* (username, vod, n) only, the same for every hostname of the epoch, and a
\* full_url made of that hostname, that hash, the username, the vod and n.
C24_CandidateShape ==
    DvRangeBuilt =>
        LET cdns == CompileCdnList(flags.cdnfile)
        IN  /\ \A i \in 1..Len(dvCands) :
                  LET c == dvCands[i] IN
                  /\ c.timestamp \in EpochRange(ParseTimestamp(dvFrom).value,
                                                ParseTimestamp(dvTo).value)
                  /\ Len(c.hash) = 20
                  /\ \A k \in 1..Len(c.hash) : IsHexChar(c.hash[k])
                  /\ c.hash = Sha1Hex20(dvUser, dvVod, c.timestamp)
                  /\ \E h \in 1..Len(cdns) :
                        c.full_url = VodUrl(cdns[h], c.hash, dvUser, dvVod, c.timestamp)
            /\ \A i, j \in 1..Len(dvCands) :
                  dvCands[i].timestamp = dvCands[j].timestamp
                      => dvCands[i].hash = dvCands[j].hash

\* candidates of two epochs on two hostnames were generated: the two
\* hostnames of an epoch share its hash
C24_Witness ==
    /\ DvRangeBuilt
    /\ Len(dvCands) >= 4
    /\ \E i, j \in 1..Len(dvCands) :
          /\ i # j
          /\ dvCands[i].hash = dvCands[j].hash
          /\ dvCands[i].full_url.cdn # dvCands[j].full_url.cdn
    /\ \E i, j \in 1..Len(dvCands) : dvCands[i].timestamp # dvCands[j].timestamp

(* ---------------------- the loop and try_to_fix ------------------------ *)

\* main_interface: clip_bruteforce returned, its result goes to try_to_fix
\* and the loop asks for the next mode
ClLoop ==
    /\ clPc = "done"
    /\ TryToFix(clResult)
    /\ clPc' = "next"
    /\ UNCHANGED <<clVod, clStart, clEnd, clTodo, clInflight, clHttp, clRes, clResult>>
    /\ UNCHANGED <<flags, fxVars, tsVars, dvVars, cdVars>>

\* a session of the interactive loop: VOD discovery commands, or a clipforce
LoopInit == EquivInit \/ ClInit

LoopNext == EquivNext \/ ClNext \/ ClLoop

SpecLoop == LoopInit /\ [][LoopNext]_vars

\* C25: every ReturnURL a discovery command returns has muted = false, so
\* after a discovery command try_to_fix never asks the user about a fixed
\* playlist and never starts a playlist repair.
C25_NeverMutedNeverFixed ==
    /\ (dvPc = "done" /\ dvResult.tag = "Ok") =>
            \A i \in 1..Len(ValidUrlsOf(dvResult)) : ~ValidUrlsOf(dvResult)[i].muted
    /\ (clPc \in {"done", "next"} /\ clResult.tag = "Ok") =>
            \A i \in 1..Len(ValidUrlsOf(clResult)) : ~ValidUrlsOf(clResult)[i].muted
    /\ ~tfAsked
    /\ tfFix = NoneV

\* a clipforce returned two clip URLs, the list went through try_to_fix and
\* the loop is back at the mode prompt without a question asked
C25_Witness ==
    /\ clPc = "next"
    /\ Len(ValidUrlsOf(clResult)) = 2
    /\ ~tfAsked
    /\ tfFix = NoneV

(* -------------------------- fix: verified mode ------------------------- *)

\* the run is in verified mode and the source playlist was parsed
VerifiedRun == fxOld /\ fxPl # NoneV

\* the URL requested for the i-th source segment
SegmentUrl(i) == BaseUrl(fxUrl) \o fxPl[1].segments[i].uri

\* the GETs issued after the GET of the playlist itself
SegmentGets == SubSeq(fxHttp, 2, Len(fxHttp))

\* every probe was sent and has completed
VerifiedProbed == VerifiedRun /\ fxPc \in {"write", "done"} /\ fxResult # "panic"

S_ts == <<".","t","s">>
S_unmuted_ts == <<"-","u","n","m","u","t","e","d",".","t","s">>

\* the file name is {n}.ts or {n}-unmuted.ts
SegNumbered(uri) ==
    LET d == DigitRunLen(uri, 1)
    IN  /\ d > 0
        /\ SubSeq(uri, d + 1, Len(uri)) \in {S_ts, S_unmuted_ts}

SegIndex(uri) == NumVal(uri, 1, DigitRunLen(uri, 1))

\* the segments are named by distinct numeric indices in ascending order
SegsAscending(segs) ==
    /\ \A i \in 1..Len(segs) : SegNumbered(segs[i].uri)
    /\ \A i \in 1..(Len(segs) - 1) : SegIndex(segs[i].uri) < SegIndex(segs[i + 1].uri)

\* the position in fetches of the resolved URL of segment i
AnswerOf(i) == CHOOSE k \in 1..Len(fxAnswers) : fxAnswers[k].index = i

OutputBuilt == fxPl # NoneV /\ fxPc \in {"write", "done"} /\ fxResult # "panic"

\* C28: in both repair modes the output playlist has the version, target
\* duration, media sequence, discontinuity sequence, end-list flag and
\* playlist type of the source playlist, and one segment entry per input
\* segment, each with the duration of the input segment at its position.
C28_HeaderAndDurationsKept ==
    OutputBuilt =>
        LET src == fxPl[1]
            out == fxPlaylist
        IN  /\ out.header.version = src.header.version
            /\ out.header.target_duration = src.header.target_duration
            /\ out.header.media_sequence = src.header.media_sequence
            /\ out.header.discontinuity_sequence = src.header.discontinuity_sequence
            /\ out.header.end_list = src.header.end_list
            /\ out.header.playlist_type = src.header.playlist_type
            /\ Len(out.segments) = Len(src.segments)
            /\ \A i \in 1..Len(src.segments) :
                  out.segments[i].duration = src.segments[i].duration
            /\ (fxFile # NoneV /\ fxFile[1].complete) =>
                  /\ fxFile[1].header = src.header
                  /\ Len(fxFile[1].segments) = Len(src.segments)
                  /\ \A i \in 1..Len(src.segments) :
                        fxFile[1].segments[i].duration = src.segments[i].duration

\* a verified run over two segments of different durations, from a source
\* with version 4, no end list and no playlist type, has written its file
C28_Witness ==
    /\ OutputBuilt
    /\ fxOld
    /\ fxResult = "Ok"
    /\ fxFile # NoneV
    /\ fxFile[1].complete
    /\ fxPl[1].header.version = Some(4)
    /\ ~fxPl[1].header.end_list
    /\ Len(fxPl[1].segments) = 2
    /\ fxPl[1].segments[1].duration # fxPl[1].segments[2].duration
    /\ fxFile[1].segments[2].duration = fxPl[1].segments[2].duration

(* -------------------------- fix: pattern mode -------------------------- *)

\* C29 as stated: in pattern mode no HTTP request is made for a segment, the
\* output entries are in the order of the input segments, and the URI of an
\* input segment that does not contain "unmuted" is emitted unchanged,
\* character for character as it was parsed from the source playlist.
C29_PatternUriUnchanged ==
    PatternDone =>
        /\ fxHttp = <<fxUrl>>
        /\ Len(fxPlaylist.segments) = Len(fxPl[1].segments)
        /\ \A i \in 1..Len(fxPl[1].segments) :
              LET uri == fxPl[1].segments[i].uri
              IN  ~Contains(uri, S_unmuted) => fxPlaylist.segments[i].uri = uri

\* C29 amended: in pattern mode no HTTP request is made for a segment, the
\* i-th output entry comes from the i-th input segment, and for an input
\* segment whose URI does not contain "unmuted" the entry is the base URL
\* https://{host}/{part}/{part}/ followed by the URI, character for character
\* as it was parsed; for one that contains "unmuted" it is that text with
\* its last 11 characters replaced by "-muted.ts".
C29_PatternUriAfterBase ==
    PatternDone =>
        /\ fxHttp = <<fxUrl>>
        /\ Len(fxPlaylist.segments) = Len(fxPl[1].segments)
        /\ \A i \in 1..Len(fxPl[1].segments) :
              LET uri == fxPl[1].segments[i].uri
                  p == BaseUrlParts(fxUrl)
                  base == S_https \o p[2] \o <<"/">> \o p[3] \o <<"/">> \o p[4] \o <<"/">>
                  url == base \o uri
              IN  /\ ~Contains(uri, S_unmuted) => fxPlaylist.segments[i].uri = url
                  /\ Contains(uri, S_unmuted) =>
                        fxPlaylist.segments[i].uri
                            = SubSeq(url, 1, Len(url) - 11) \o S_muted_ts

\* a pattern-mode run without the progress bar over 10.ts and 1.ts, in this
\* order, has emitted both after the base URL and has requested the playlist
\* only
C29_Witness ==
    /\ PatternDone
    /\ ~flags.progressbar
    /\ fxHttp = <<fxUrl>>
    /\ Len(fxPl[1].segments) = 2
    /\ fxPl[1].segments[1].uri = <<"1","0",".","t","s">>
    /\ fxPl[1].segments[2].uri = <<"1",".","t","s">>
    /\ fxPlaylist.segments[1].uri = BaseUrl(fxUrl) \o <<"1","0",".","t","s">>
    /\ fxPlaylist.segments[2].uri = BaseUrl(fxUrl) \o <<"1",".","t","s">>

(* -------------------- discovery: an inverted range --------------------- *)

\* both stamps parse and the from epoch is greater than the to epoch
DvRangeInverted ==
    /\ DvRangeBuilt
    /\ ParseTimestamp(dvFrom).value > ParseTimestamp(dvTo).value

\* C30: bruteforcer called with two parsable stamps whose from epoch is
\* greater than the to epoch generates no candidate, issues no HTTP request
\* and returns Ok(None); it returns no error and does not swap the bounds.
C30_InvertedRangeNotFound ==
    DvRangeInverted =>
        /\ dvCands = <<>>
        /\ dvHttp = <<>>
        /\ dvInflight = {}
        /\ dvFinal = NoneV
        /\ dvResult.tag # "Err"
        /\ dvPc = "done" => dvResult = [tag |-> "Ok", value |-> NoneV]
        /\ flags.threads > 0 =>
              /\ dvPc = "done"
              /\ dvPrinted = IF flags.simple THEN <<>>
                             ELSE <<[msg |-> "Couldn't find anything :(", url |-> NoneV]>>

\* a call over the range from BaseEpoch + 1 to BaseEpoch has returned
\* Ok(None) without a request and has printed that nothing was found
C30_Witness ==
    /\ DvRangeInverted
    /\ ParseTimestamp(dvFrom).value = BaseEpoch + 1
    /\ ParseTimestamp(dvTo).value = BaseEpoch
    /\ dvPc = "done"
    /\ dvResult = [tag |-> "Ok", value |-> NoneV]
    /\ dvHttp = <<>>
    /\ dvCands = <<>>
    /\ ~flags.simple
    /\ Len(dvPrinted) = 1

====
